---- MODULE Spec2Model ----
(***************************************************************************)
(* Task-pipeline orchestration engine: the task registry                   *)
(* (src/src/tasks/registry.py) and the pipeline executor                   *)
(* (src/src/tasks/executor.py).                                            *)
(***************************************************************************)
EXTENDS Integers, Sequences, FiniteSets, TLC

(***************************************************************************)
(* Universe of the model.                                                  *)
(***************************************************************************)
\* task ids that may be registered or requested
Tasks == {"A", "B", "C", "D"}

\* the ids of the tasks _register_builtin_tasks registers
BuiltinTasks == {"document_processing", "summarization"}

\* a fixed listing of Tasks, used to write a set of ids as a list
TaskListing == <<"A", "B", "C", "D">>

\* task ids that registered tasks may name in their dependencies
Dependables == {"A", "B", "C"}

\* longest requested list handed to resolve_dependencies
MaxTargets == 2

\* longest dependencies list of a TaskMetadata
MaxDeps == 2

\* longest task list of a PipelineConfig
MaxConfigTasks == 2

\* most register_task calls on one registry
MaxRegistrations == 3

\* most storage operations on one PipelineStorage
MaxOps == 3

VARIABLES
    registry,           \* TaskRegistry._tasks / _metadata: task_id -> metadata
    target_tasks,       \* the argument of the resolve_dependencies call
    resolved,           \* what the call returned or raised
    config,             \* PipelineConfig.tasks of the execute_pipeline call
    initial_inputs,     \* initial_inputs of the execute_pipeline call
    pc,                 \* position of execute_pipeline
    result,             \* the PipelineResult
    returned,           \* what the caller of execute_pipeline got
    idx,                \* position of the for loop in execution_order
    available_outputs,  \* the accumulated TaskOutputs
    cur,                \* the TaskExecution of the task in flight
    calls,              \* the task methods invoked so far, with their outcome
    task_types,         \* TaskRegistry._tasks: task_id -> class, in insertion order
    reg_log,            \* the classes handed to register_task, in call order
    records,            \* base_dir/pipeline_<id>/: pipeline_id -> result.json
    index,              \* base_dir/pipeline_index.json
    log,                \* the storage operations completed so far, with outcome
    procs,              \* the save calls in flight: position and local variables
    validation,         \* what the validate_task_chain call returned
    active_pipelines,   \* api.active_pipelines: pipeline_id -> tracking entry
    job,                \* the background job of the execute endpoint
    api,                \* what the requests answered so far
    flows               \* the execute_pipeline calls of the executor: the one
                        \* that runs, and the frames of the suspended ones

resolveVars == <<registry, target_tasks, resolved>>
execVars == <<config, initial_inputs, pc, result, returned, idx,
              available_outputs, cur, calls>>
regVars == <<task_types, reg_log>>
storeVars == <<records, index, log, procs>>
apiVars == <<validation, active_pipelines, job, api, flows>>
vars == <<registry, target_tasks, resolved, config, initial_inputs, pc, result,
          returned, idx, available_outputs, cur, calls, task_types, reg_log,
          records, index, log, procs, validation, active_pipelines, job, api,
          flows>>

(***************************************************************************)
(* Helpers on sequences.                                                   *)
(***************************************************************************)
Range(s) == {s[i] : i \in DOMAIN s}

SeqsUpTo(S, n) == UNION {[1..k -> S] : k \in 0..n}

NoDup(s) == \A i, j \in DOMAIN s : i # j => s[i] # s[j]

\* all orders in which a set can be iterated
Orderings(S) == {s \in [1..Cardinality(S) -> S] : Range(s) = S}

Count(s, x) == Cardinality({i \in DOMAIN s : s[i] = x})

\* a set of ids as a list, in the order of TaskListing
AsList(S) == SelectSeq(TaskListing, LAMBDA t : t \in S)

\* None, and JSON null
Null == <<>>

(***************************************************************************)
(* TaskRegistry.resolve_dependencies                                       *)
(***************************************************************************)
NoError == [kind |-> "none"]
NotRegistered(task_id) == [kind |-> "not_registered", task |-> task_id]
CircularDependency(remaining) == [kind |-> "circular", remaining |-> remaining]

\* graph = defaultdict(list), in_degree = defaultdict(int), all_tasks = set(target_tasks)
NewGraph(targets) ==
    [all_tasks |-> Range(targets),
     graph     |-> [t \in Tasks \cup BuiltinTasks |-> <<>>],
     in_degree |-> [t \in Tasks \cup BuiltinTasks |-> 0],
     error     |-> NoError]

\* AddEdge with the edge turned around
AddEdgeReversed(b, dep, task_id) ==
    [b EXCEPT !.graph[task_id] = Append(@, dep), !.in_degree[dep] = @ + 1]

\* "graph[dep].append(task_id); in_degree[task_id] += 1"
AddEdge(b, dep, task_id) ==
    [b EXCEPT !.graph[dep] = Append(@, task_id), !.in_degree[task_id] = @ + 1]

RECURSIVE add_dependencies(_, _, _)
RECURSIVE add_dependencies_loop(_, _, _, _)

\* the loop "for dep in metadata.dependencies" from its i-th element on
add_dependencies_loop(reg, b, task_id, i) ==
    LET deps == reg[task_id].dependencies IN
    IF b.error # NoError \/ i > Len(deps) THEN b
    ELSE LET dep == deps[i]
             b1  == IF dep \notin b.all_tasks
                    THEN add_dependencies(reg, [b EXCEPT !.all_tasks = @ \cup {dep}], dep)
                    ELSE b
             b2  == IF b1.error # NoError THEN b1 ELSE AddEdge(b1, dep, task_id)
         IN add_dependencies_loop(reg, b2, task_id, i + 1)

add_dependencies(reg, b, task_id) ==
    IF b.error # NoError THEN b
    ELSE IF task_id \notin DOMAIN reg
         THEN [b EXCEPT !.error = NotRegistered(task_id)]
         ELSE add_dependencies_loop(reg, b, task_id, 1)

\* "for task_id in target_tasks: add_dependencies(task_id)"
RECURSIVE BuildGraph(_, _, _, _)
BuildGraph(reg, b, targets, i) ==
    IF i > Len(targets) THEN b
    ELSE BuildGraph(reg, add_dependencies(reg, b, targets[i]), targets, i + 1)

\* the tasks the initial queue is made of; their order is the iteration
\* order of the Python set all_tasks
ZeroInDegree(b) == {t \in b.all_tasks : b.in_degree[t] = 0}

\* "for dependent in graph[current]" from its i-th element on
RECURSIVE ReduceInDegree(_, _, _, _)
ReduceInDegree(dependents, i, in_degree, queue) ==
    IF i > Len(dependents) THEN [in_degree |-> in_degree, queue |-> queue]
    ELSE LET d   == dependents[i]
             deg == [in_degree EXCEPT ![d] = @ - 1]
         IN ReduceInDegree(dependents, i + 1, deg,
                           IF deg[d] = 0 THEN Append(queue, d) ELSE queue)

RECURSIVE Kahn(_, _, _, _)
\* "while queue"
Kahn(graph, in_degree, queue, execution_order) ==
    IF queue = <<>> THEN execution_order
    ELSE LET current == Head(queue)
             r == ReduceInDegree(graph[current], 1, in_degree, Tail(queue))
         IN Kahn(graph, r.in_degree, r.queue, Append(execution_order, current))

\* execution_order once the while loop has ended
KahnOrder(b, queue) == Kahn(b.graph, b.in_degree, queue, <<>>)

\* SortGraph without the test of the length of execution_order
SortGraphUnchecked(b, queue) ==
    IF b.error # NoError THEN [order |-> <<>>, error |-> b.error]
    ELSE [order |-> KahnOrder(b, queue), error |-> NoError]

\* the result of resolve_dependencies once the graph is built and the
\* initial queue (an ordering of the zero in-degree tasks) is fixed
SortGraph(b, queue) ==
    IF b.error # NoError THEN [order |-> <<>>, error |-> b.error]
    ELSE LET execution_order == KahnOrder(b, queue) IN
         IF Len(execution_order) # Cardinality(b.all_tasks)
         THEN [order |-> <<>>,
               error |-> CircularDependency(b.all_tasks \ Range(execution_order))]
         ELSE [order |-> execution_order, error |-> NoError]

\* every result resolve_dependencies can give for one registry and request
resolve_dependencies(reg, targets) ==
    LET b == BuildGraph(reg, NewGraph(targets), targets, 1) IN
    IF b.error # NoError THEN {SortGraph(b, <<>>)}
    ELSE {SortGraph(b, q) : q \in Orderings(ZeroInDegree(b))}

(***************************************************************************)
(* TaskRegistry.register_task, get_task, get_task_metadata, list_tasks     *)
(***************************************************************************)
\* a task class: its name, and the metadata its instances report
TaskClass(name, task_id, deps) ==
    [name |-> name, task_id |-> task_id,
     metadata |-> [dependencies |-> deps, input_types |-> <<>>,
                   validates |-> "default"]]

\* dict[key] = value on a dict kept as the list of its items: a key the dict
\* holds keeps its place, a new key goes last
DictPutAppend(d, key, value) == Append(d, [task_id |-> key, cls |-> value])

DictPut(d, key, value) ==
    IF \E i \in DOMAIN d : d[i].task_id = key
    THEN [i \in DOMAIN d |->
             IF d[i].task_id = key THEN [task_id |-> key, cls |-> value] ELSE d[i]]
    ELSE Append(d, [task_id |-> key, cls |-> value])

\* self._tasks[metadata.task_id] = task_class
register_task_types(types, task_class) ==
    DictPut(types, task_class.task_id, task_class.name)

\* self._metadata[metadata.task_id] = metadata
register_task_metadata(reg, task_class) ==
    [t \in (DOMAIN reg) \cup {task_class.task_id} |->
        IF t = task_class.task_id THEN task_class.metadata ELSE reg[t]]

\* get_task: an instance of the registered class, or ValueError
get_task(types, task_id) ==
    IF \A i \in DOMAIN types : types[i].task_id # task_id
    THEN [error |-> NotRegistered(task_id), cls |-> ""]
    ELSE [error |-> NoError,
          cls |-> types[CHOOSE i \in DOMAIN types : types[i].task_id = task_id].cls]

\* get_task_metadata: the registered metadata, or ValueError
get_task_metadata(reg, task_id) ==
    IF task_id \notin DOMAIN reg
    THEN [error |-> NotRegistered(task_id), has |-> FALSE]
    ELSE [error |-> NoError, has |-> TRUE, metadata |-> reg[task_id]]

\* list_tasks: list(self._tasks.keys())
list_tasks(types) == [i \in DOMAIN types |-> types[i].task_id]

\* the _tasks dict of a registry given by its metadata: one class per id
TypesFor(reg) ==
    [i \in 1..Len(AsList(DOMAIN reg)) |->
        [task_id |-> AsList(DOMAIN reg)[i], cls |-> AsList(DOMAIN reg)[i]]]

(***************************************************************************)
(* TaskRegistry.validate_task_chain                                        *)
(***************************************************************************)
\* f"Task '{task_id}' requires inputs {required_inputs} but only
\* {available_outputs} are available"
MissingInputs(task_id, required_inputs, available) ==
    [kind |-> "missing_inputs", task |-> task_id, required |-> required_inputs,
     available |-> available]

\* lines 215-217: one issue for each requested id that is not in _tasks
UnregisteredIssues(types, task_ids) ==
    LET missing == SelectSeq(task_ids, LAMBDA t : get_task(types, t).error # NoError)
    IN [i \in DOMAIN missing |-> NotRegistered(missing[i])]

\* lines 225-236: the loop over resolved_order from its i-th task on
RECURSIVE CheckChain(_, _, _, _, _, _)
CheckChain(reg, task_ids, resolved_order, i, available, issues) ==
    IF i > Len(resolved_order) THEN issues
    ELSE LET task_id == resolved_order[i]
             required_inputs == Range(reg[task_id].input_types)
             missing == /\ required_inputs # {}
                        /\ required_inputs \cap available = {}
                        /\ (task_id \notin Range(task_ids) \/ available # {})
         IN CheckChain(reg, task_ids, resolved_order, i + 1,
                       available \cup Range(reg[task_id].output_types),
                       IF missing
                       THEN Append(issues, MissingInputs(task_id, required_inputs,
                                                         available))
                       ELSE issues)

\* lines 241-245: the returned dict
ValidationResult(issues, resolved_order) ==
    [called |-> TRUE, valid |-> Len(issues) = 0, issues |-> issues,
     execution_order |-> IF Len(issues) = 0 THEN resolved_order ELSE Null]

\* a result not yet given by resolve_dependencies, which was not called
NotResolved == [order |-> <<>>, error |-> [kind |-> "not_called"]]

\* validate_task_chain: every dict it can return, each with what its call of
\* resolve_dependencies gave
validate_task_chain(types, reg, task_ids) ==
    LET unregistered == UnregisteredIssues(types, task_ids) IN
    IF unregistered # <<>>
    THEN {[validation |-> ValidationResult(unregistered, <<>>), resolved |-> NotResolved]}
    ELSE {[validation |->
              IF r.error # NoError THEN ValidationResult(<<r.error>>, <<>>)
              ELSE ValidationResult(CheckChain(reg, task_ids, r.order, 1, {}, <<>>),
                                    r.order),
           resolved |-> r] : r \in resolve_dependencies(reg, task_ids)}

(***************************************************************************)
(* Data carrier (TaskInputs / TaskOutputs) and the other models of         *)
(* src/src/tasks/models.py.  A map is a function from a set of keys.       *)
(***************************************************************************)
EmptyMap == [k \in {} |-> "none"]

\* dict.update(other): keys of other overwrite
Update(m, other) ==
    [k \in (DOMAIN m) \cup (DOMAIN other) |->
        IF k \in DOMAIN other THEN other[k] ELSE m[k]]

Restrict(m, keys) == [k \in (DOMAIN m) \cap keys |-> m[k]]

\* TaskOutputs() / TaskInputs()
EmptyCarrier == [data |-> EmptyMap, files |-> EmptyMap, metadata |-> EmptyMap]

\* TaskConfig(task_id=..., inputs=...)
TaskConfig(task_id, inputs) == [task_id |-> task_id, inputs |-> inputs]

\* a configured input value: the string "$" + rest (dollar) or the string rest
Ref(key) == [dollar |-> TRUE, rest |-> key]
Lit(text) == [dollar |-> FALSE, rest |-> text]

\* a path: its directory, its file name, and whether the file exists
Path(dir, name, exists) == [dir |-> dir, name |-> name, exists |-> exists]
WorkDir == <<"work", "">>
UploadDir == <<"upload", "">>
TaskDir(task_id) == <<"task", task_id>>

\* error values (str(e) of the exception)
InvalidInputs(task_id) == [kind |-> "invalid_inputs", task |-> task_id]
SetupError == [kind |-> "setup_error"]
ExecuteError == [kind |-> "execute_error"]
SaveError == [kind |-> "save_error"]
CleanupError == [kind |-> "cleanup_error"]
MkdirError == [kind |-> "mkdir_error"]
MetadataError == [kind |-> "metadata_error"]
\* f"Task '{task_id}' failed: {task_execution.error_message}"
TaskFailed(task_id, message) ==
    [kind |-> "task_failed", task |-> task_id, message |-> message]

\* TaskExecution(task_id, status=RUNNING, start_time=now)
NewTaskExecution(task_id) ==
    [task_id |-> task_id, status |-> "running", inputs |-> EmptyCarrier,
     has_outputs |-> FALSE, outputs |-> EmptyCarrier,
     error_message |-> NoError, ended |-> FALSE, exc |-> NoError]

NoTask == NewTaskExecution("")

\* PipelineResult(pipeline_id, config, status=RUNNING, start_time=now)
NewPipelineResult ==
    [created |-> TRUE, status |-> "running", task_executions |-> <<>>,
     has_final |-> FALSE, final_outputs |-> EmptyCarrier,
     error_message |-> NoError, ended |-> FALSE]

NoResult == [NewPipelineResult EXCEPT !.created = FALSE, !.status = "none"]

(***************************************************************************)
(* The base directory "content/pipelines", which the executor and the      *)
(* storage share: one directory pipeline_<id> per pipeline.                *)
(***************************************************************************)
\* result.json of a pipeline directory: written in full, or cut short by a
\* json.dump that raised, or missing from the directory
JsonFile(data) == [kind |-> "json", data |-> data]
PartialFile == [kind |-> "partial", data |-> Null]
MissingFile == [kind |-> "missing", data |-> Null]

\* the directory pipeline_<id> with its result.json
PutRecord(recs, pipeline_id, file) ==
    [p \in (DOMAIN recs) \cup {pipeline_id} |->
        IF p = pipeline_id THEN file ELSE recs[p]]

\* Path.mkdir(parents=True, exist_ok=True) of the pipeline directory or of a
\* task directory in it: the pipeline directory is there afterwards
EnsureDir(recs, pipeline_id) ==
    IF pipeline_id \in DOMAIN recs THEN recs
    ELSE PutRecord(recs, pipeline_id, MissingFile)

(***************************************************************************)
(* PipelineExecutor: the pure parts of execute_pipeline and _execute_task  *)
(***************************************************************************)
\* task_ids = [task.task_id for task in config.tasks]
TaskIds(cfg) == [i \in DOMAIN cfg |-> cfg[i].task_id]

\* seeding of available_outputs from initial_inputs: a value that is the
\* path of an existing file goes to files, any other value to data
SeedOutputs(initial) ==
    [data     |-> [k \in {k \in DOMAIN initial : ~initial[k].exists} |->
                      initial[k].name],
     files    |-> [k \in {k \in DOMAIN initial : initial[k].exists} |->
                      initial[k]],
     metadata |-> EmptyMap]

\* the first TaskConfig of config.tasks with this task_id, else a minimal one
FindTaskConfig(cfg, task_id) ==
    LET hits == {i \in DOMAIN cfg : cfg[i].task_id = task_id} IN
    IF hits = {} THEN TaskConfig(task_id, EmptyMap)
    ELSE cfg[CHOOSE i \in hits : \A j \in hits : i <= j]

\* ConfiguredInputs with the two branches of the reference in the other
\* order: files are looked up before data
ConfiguredInputsFilesFirst(inputs, available) ==
    LET refs  == {k \in DOMAIN inputs : inputs[k].dollar}
        inFiles == {k \in refs : inputs[k].rest \in DOMAIN available.files}
        inData  == {k \in refs \ inFiles : inputs[k].rest \in DOMAIN available.data}
    IN [data  |-> [k \in inData \cup ((DOMAIN inputs) \ refs) |->
                      IF k \in inData THEN available.data[inputs[k].rest]
                      ELSE inputs[k].rest],
        files |-> [k \in inFiles |-> available.files[inputs[k].rest]],
        metadata |-> EmptyMap]

\* _prepare_task_inputs, first loop: the configured inputs
ConfiguredInputs(inputs, available) ==
    LET refs  == {k \in DOMAIN inputs : inputs[k].dollar}
        inData  == {k \in refs : inputs[k].rest \in DOMAIN available.data}
        inFiles == {k \in refs \ inData : inputs[k].rest \in DOMAIN available.files}
    IN [data  |-> [k \in inData \cup ((DOMAIN inputs) \ refs) |->
                      IF k \in inData THEN available.data[inputs[k].rest]
                      ELSE inputs[k].rest],
        files |-> [k \in inFiles |-> available.files[inputs[k].rest]],
        metadata |-> EmptyMap]

\* _prepare_task_inputs, second loop: available outputs of the declared kinds
KindMatched(task_inputs, input_types, available) ==
    [task_inputs EXCEPT
        !.data  = Update(@, Restrict(available.data, Range(input_types))),
        !.files = Update(@, Restrict(available.files, Range(input_types)))]

\* the third loop without its test "if key not in task_inputs.data"
RemainingDataOverwrites(task_inputs, available) ==
    [task_inputs EXCEPT !.data = Update(@, available.data)]

\* _prepare_task_inputs, third loop: all remaining available data
RemainingData(task_inputs, available) ==
    [task_inputs EXCEPT !.data = Update(available.data, @)]

\* _prepare_task_inputs without its second and third loop: nothing is
\* forwarded from the available outputs unless it is configured
prepare_task_inputs_configured_only(inputs, input_types, available) ==
    ConfiguredInputs(inputs, available)

\* _prepare_task_inputs
prepare_task_inputs(inputs, input_types, available) ==
    RemainingData(
        KindMatched(ConfiguredInputs(inputs, available), input_types, available),
        available)

\* validate_inputs that asks for every declared input kind
validate_inputs_all(input_types, inputs) ==
    \A i \in DOMAIN input_types :
        input_types[i] \in DOMAIN inputs.data \/ input_types[i] \in DOMAIN inputs.files

\* BaseTask.validate_inputs
validate_inputs(input_types, inputs) ==
    \E i \in DOMAIN input_types :
        input_types[i] \in DOMAIN inputs.data \/ input_types[i] \in DOMAIN inputs.files

\* DocumentProcessingTask.validate_inputs
document_processing_validate_inputs(inputs) ==
    \/ "pdf" \in DOMAIN inputs.files
    \/ "file" \in DOMAIN inputs.files
    \/ "pdf_content" \in DOMAIN inputs.data

\* SummarizationTask.validate_inputs
summarization_validate_inputs(inputs) ==
    \/ "enhanced_markdown" \in DOMAIN inputs.files
    \/ "markdown" \in DOMAIN inputs.files
    \/ "enhanced_markdown" \in DOMAIN inputs.data
    \/ "markdown" \in DOMAIN inputs.data

\* what task.validate_inputs(inputs) may return: the inherited one and the
\* ones of the built-in tasks are functions of the inputs, another override
\* returns what it likes
ValidateOutcomes(meta, inputs) ==
    CASE meta.validates = "default" -> {validate_inputs(meta.input_types, inputs)}
      [] meta.validates = "document_processing" ->
            {document_processing_validate_inputs(inputs)}
      [] meta.validates = "summarization" -> {summarization_validate_inputs(inputs)}
      [] OTHER -> BOOLEAN

\* _save_task_outputs: an existing file outside the task directory is copied
\* into it and the output is repointed to the copy
save_task_outputs(task_id, outputs) ==
    [outputs EXCEPT !.files =
        [k \in DOMAIN outputs.files |->
            IF outputs.files[k].exists /\ outputs.files[k].dir # TaskDir(task_id)
            THEN [outputs.files[k] EXCEPT !.dir = TaskDir(task_id)]
            ELSE outputs.files[k]]]

\* setup called inside the inner try: cleanup follows a setup that raised
PcAfterSetupInsideTry(raised) == IF raised THEN "cleanup" ELSE "execute"

\* "await task.setup()" stands before the inner try: when it raises, the
\* except clause of _execute_task is next, without execute and cleanup
PcAfterSetup(raised) == IF raised THEN "record" ELSE "execute"

\* cleanup called at the end of the try block instead of in a finally clause
PcAfterExecuteNoFinally(raised) == IF raised THEN "record" ELSE "cleanup"

\* the finally clause of _execute_task: cleanup follows execute however it ended
PcAfterExecute(raised) == "cleanup"

\* _execute_task once cleanup has returned or raised: "except Exception as e"
FinishTask(task_execution, cleanup_ok) ==
    IF ~cleanup_ok
    THEN [task_execution EXCEPT !.status = "failed",
                                !.error_message = CleanupError,
                                !.ended = TRUE, !.exc = NoError]
    ELSE IF task_execution.exc # NoError
    THEN [task_execution EXCEPT !.status = "failed",
                                !.error_message = task_execution.exc,
                                !.ended = TRUE, !.exc = NoError]
    ELSE [task_execution EXCEPT !.ended = TRUE]

\* _execute_task when an exception is raised before the inner try
FailTask(task_execution, e) ==
    [task_execution EXCEPT !.status = "failed", !.error_message = e,
                           !.ended = TRUE]

\* result.task_executions[task_id] = task_execution (a dict keeps the place
\* of a key it already holds)
DictSet(execs, e) ==
    IF \E i \in DOMAIN execs : execs[i].task_id = e.task_id
    THEN [i \in DOMAIN execs |-> IF execs[i].task_id = e.task_id THEN e ELSE execs[i]]
    ELSE Append(execs, e)

\* the loop with the test turned around: it stops after a completed task
BreaksLoopOnCompleted(task_execution) == task_execution.status = "completed"

\* the loop without the test of the task's status
BreaksLoopNever(task_execution) == FALSE

\* "if task_execution.status == FAILED: ... break"
BreaksLoop(task_execution) == task_execution.status = "failed"

\* the loop without the merge: the outputs of a task are not accumulated
MergeOutputsNone(available, outputs) == available

\* MergeOutputs that keeps the value a key already has
MergeOutputsKeepFirst(available, outputs) ==
    [data     |-> Update(outputs.data, available.data),
     files    |-> Update(outputs.files, available.files),
     metadata |-> Update(outputs.metadata, available.metadata)]

\* available_outputs.{data,files,metadata}.update(task_execution.outputs...)
MergeOutputs(available, outputs) ==
    [data     |-> Update(available.data, outputs.data),
     files    |-> Update(available.files, outputs.files),
     metadata |-> Update(available.metadata, outputs.metadata)]

\* the for loop goes on while execution_order has a next task
LoopPc(i, order) == IF i > Len(order) THEN "finalize" ELSE "dispatch"

\* the except clause without "result.status = TaskStatus.FAILED"
PipelineFailedKeepsStatus(res, e) ==
    [res EXCEPT !.error_message = e, !.ended = TRUE]

\* "except Exception as e" of execute_pipeline
PipelineFailed(res, e) ==
    [res EXCEPT !.status = "failed", !.error_message = e, !.ended = TRUE]

\* the record of a task-method call
Call(task_id, method, outcome) == <<task_id, method, outcome>>

(***************************************************************************)
(* Inputs of the executor specification.                                   *)
(***************************************************************************)
Metadata(deps, input_types, validates) ==
    [dependencies |-> deps, input_types |-> input_types, validates |-> validates]

\* A <- B <- C, and D on its own without input kinds; C overrides validate_inputs
RegChain ==
    [t \in {"A", "B", "C", "D"} |->
        CASE t = "A" -> Metadata(<<>>, <<"pdf">>, "default")
          [] t = "B" -> Metadata(<<"A">>, <<"foo">>, "default")
          [] t = "C" -> Metadata(<<"B">>, <<"x", "foo">>, "custom")
          [] t = "D" -> Metadata(<<>>, <<>>, "default")]

\* A depends on itself, B on the unregistered D, C on B
RegBroken ==
    [t \in {"A", "B", "C"} |->
        CASE t = "A" -> Metadata(<<"A">>, <<"pdf">>, "default")
          [] t = "B" -> Metadata(<<"D">>, <<"foo">>, "default")
          [] t = "C" -> Metadata(<<"B">>, <<"x", "foo">>, "custom")]

ExecRegistries == {RegChain, RegBroken}

\* the metadata of DocumentProcessingTask and SummarizationTask
BuiltinMetadata ==
    [t \in BuiltinTasks |->
        IF t = "document_processing"
        THEN Metadata(<<>>, <<"pdf">>, "document_processing")
        ELSE Metadata(<<"document_processing">>, <<"markdown", "enhanced_markdown">>,
                      "summarization")]

\* the global registry of get_task_registry(): the built-in tasks, and the
\* tasks of RegChain registered after them
RegGlobal ==
    [t \in BuiltinTasks \cup DOMAIN RegChain |->
        IF t \in BuiltinTasks THEN BuiltinMetadata[t] ELSE RegChain[t]]

\* the value a task writes
TaskValue == [t \in Tasks \cup BuiltinTasks |->
                 CASE t = "A" -> "bar" [] t = "B" -> "vB"
                   [] t = "C" -> "vC" [] t = "D" -> "vD"
                   [] t = "document_processing" -> "vDoc"
                   [] t = "summarization" -> "vSum"]

\* the keys of the results of process_pdf_with_enhanced_understanding
\* (enhanced_document_processor.py, lines 603-632): eight always, ten more
\* with the content/books structure
DocumentResults(books) ==
    {"pdf_file", "enhanced_markdown", "cache_file", "figures_directory",
     "figures_processed", "document_length", "analyzer_id", "processing_stats"}
    \cup (IF books
          THEN {"main_folder", "job_id", "timestamp", "content_type", "book_title",
                "metadata_file", "input_directory", "processed_directory",
                "markdown_directory", "folder_structure"}
          ELSE {})

\* what execute() of DocumentProcessingTask returns (lines 141-172) for the
\* results of a processed pdf: the files the results name, the six data
\* outputs (book_title and main_folder are None without the content/books
\* structure), and every result as metadata
DocumentOutputs(books) ==
    LET results == DocumentResults(books) IN
    [data     |-> [k \in {"figures_directory", "processing_stats", "figures_processed",
                          "document_length", "book_title", "main_folder"} |->
                      IF k \in results THEN "vDoc" ELSE "None"],
     files    |-> [k \in {"enhanced_markdown", "cache_file"}
                          \cup (IF "metadata_file" \in results THEN {"metadata"} ELSE {}) |->
                      Path(WorkDir,
                           CASE k = "enhanced_markdown" -> "book.md"
                             [] k = "cache_file" -> "cache.json"
                             [] OTHER -> "metadata.json",
                           TRUE)],
     metadata |-> [k \in results |-> "vDoc"]]

\* what execute() of SummarizationTask may return (lines 128-244): the
\* summary file is among the outputs only when it was written
SummaryOutputs ==
    LET data == [k \in {"book_summary", "book_title", "overall_summary",
                        "key_themes", "learning_objectives", "chapter_summaries",
                        "total_chapters"} |-> "vSum"]
        metadata == [k \in {"summarization_completed", "total_chapters",
                            "key_themes_count", "learning_objectives_count",
                            "created_at"} |-> "vSum"]
    IN {[data |-> data, files |-> EmptyMap, metadata |-> metadata],
        [data |-> data,
         files |-> [k \in {"book_summary_file"} |->
                      Path(WorkDir, "summary.json", TRUE)],
         metadata |-> metadata]}

\* what execute() of a task may return
OutputChoices(task_id) ==
    IF task_id = "document_processing" THEN {DocumentOutputs(b) : b \in BOOLEAN}
    ELSE IF task_id = "summarization" THEN SummaryOutputs
    ELSE
    {[data     |-> [k \in {"foo"} |-> TaskValue[task_id]],
      files    |-> EmptyMap,
      metadata |-> [k \in {"m"} |-> TaskValue[task_id]]],
     [data     |-> [k \in {"x"} |-> TaskValue[task_id]],
      files    |-> EmptyMap,
      metadata |-> EmptyMap],
     [data     |-> EmptyMap,
      files    |-> [k \in {"x", "gone"} |->
                       IF k = "x" THEN Path(WorkDir, TaskValue[task_id], TRUE)
                       ELSE Path(WorkDir, "gone", FALSE)],
      metadata |-> EmptyMap]}

\* document_processing.py, lines 83-99: the pdf is the file under "pdf",
\* else the one under "pdf_file"; without an existing file execute() raises
\* (a text under the data key "pdf" is no bytes: writing it to the
\* temporary file raises as well)
HasPdf(inputs) ==
    IF "pdf" \in DOMAIN inputs.files THEN inputs.files["pdf"].exists
    ELSE IF "pdf_file" \in DOMAIN inputs.files THEN inputs.files["pdf_file"].exists
    ELSE FALSE

\* line 118: inputs.data.get('use_content_books_structure', True); "False"
\* stands for the value False
UseBooksStructure(inputs) ==
    \/ "use_content_books_structure" \notin DOMAIN inputs.data
    \/ inputs.data["use_content_books_structure"] # "False"

\* what execute() may return given the inputs of the task:
\* DocumentProcessingTask needs a pdf and follows the structure its inputs
\* ask for; SummarizationTask writes its summary file only into the
\* main_folder of its inputs (summarization.py, lines 156-218)
ExecuteOutputs(task_id, inputs) ==
    IF task_id = "document_processing"
    THEN IF HasPdf(inputs) THEN {DocumentOutputs(UseBooksStructure(inputs))} ELSE {}
    ELSE IF task_id = "summarization"
            /\ ("main_folder" \notin DOMAIN inputs.data
                \/ inputs.data["main_folder"] = "None")
    THEN {o \in SummaryOutputs : o.files = EmptyMap}
    ELSE OutputChoices(task_id)

\* TaskConfig.inputs: none, or "$x" references and a literal
Wired ==
    [k \in {"k", "foo", "pdf"} |->
        CASE k = "k" -> Ref("x") [] k = "foo" -> Ref("x") [] k = "pdf" -> Lit("lit")]

ConfigInputChoices == {EmptyMap, Wired}

TaskConfigs == {TaskConfig(t, i) : t \in Tasks, i \in ConfigInputChoices}

Configs == SeqsUpTo(TaskConfigs, MaxConfigTasks)

\* initial_inputs: none; an uploaded pdf; a pdf text and a value for x
InitialInputChoices ==
    {EmptyMap,
     [k \in {"pdf"} |-> Path(UploadDir, "book.pdf", TRUE)],
     [k \in {"pdf", "x"} |->
         IF k = "pdf" THEN Path(UploadDir, "text", FALSE)
         ELSE Path(UploadDir, "init", FALSE)]}

NotCalled == [order |-> <<>>, error |-> [kind |-> "not_called"]]

(***************************************************************************)
(* execute_pipeline, one action per stretch of code between two awaits     *)
(***************************************************************************)
\* lines 54-88: create the result, the output directory, resolve the order,
\* seed the available outputs; any exception ends in "except Exception"
StartPipeline ==
    /\ pc = "idle"
    /\ target_tasks' = TaskIds(config)
    /\ \E mkdir_ok \in BOOLEAN :
       \E r \in resolve_dependencies(registry, TaskIds(config)) :
          IF ~mkdir_ok
          THEN /\ result' = PipelineFailed(NewPipelineResult, MkdirError)
               /\ pc' = "returned"
               /\ returned' = "result"
               /\ UNCHANGED <<resolved, available_outputs, idx, records>>
          ELSE /\ resolved' = r
               /\ records' = EnsureDir(records, flows.current)
               /\ IF r.error # NoError
                  THEN /\ result' = PipelineFailed(NewPipelineResult, r.error)
                       /\ pc' = "returned"
                       /\ returned' = "result"
                       /\ UNCHANGED <<available_outputs, idx>>
                  ELSE /\ result' = NewPipelineResult
                       /\ available_outputs' = SeedOutputs(initial_inputs)
                       /\ idx' = 1
                       /\ pc' = LoopPc(1, r.order)
                       /\ UNCHANGED returned
    /\ UNCHANGED <<registry, config, initial_inputs, cur, calls>>
    /\ UNCHANGED <<regVars, index, log, procs, apiVars>>

\* lines 90-107 and 164-182: find the TaskConfig, create the TaskExecution,
\* get the task, prepare and validate its inputs
DispatchTask ==
    /\ pc = "dispatch"
    /\ LET task_id     == resolved.order[idx]
           task_config == FindTaskConfig(config, task_id)
           started     == NewTaskExecution(task_id)
       IN IF task_id \notin DOMAIN registry
          THEN /\ cur' = FailTask(started, NotRegistered(task_id))
               /\ pc' = "record"
               /\ UNCHANGED calls
          ELSE LET meta   == registry[task_id]
                   inputs == prepare_task_inputs(task_config.inputs,
                                                 meta.input_types, available_outputs)
                   withIn == [started EXCEPT !.inputs = inputs]
               IN \E valid \in ValidateOutcomes(meta, inputs) :
                     IF valid
                     THEN /\ cur' = withIn
                          /\ pc' = "setup"
                          /\ calls' = Append(calls, Call(task_id, "validate_inputs", "true"))
                     ELSE /\ cur' = FailTask(withIn, InvalidInputs(task_id))
                          /\ pc' = "record"
                          /\ calls' = Append(calls, Call(task_id, "validate_inputs", "false"))
    /\ UNCHANGED <<registry, target_tasks, resolved, config, initial_inputs,
                   result, returned, idx, available_outputs>>
    /\ UNCHANGED <<regVars, storeVars, apiVars>>

\* line 185: await task.setup()
SetupTask ==
    /\ pc = "setup"
    /\ \E ok \in BOOLEAN :
          IF ok
          THEN /\ pc' = PcAfterSetup(FALSE)
               /\ calls' = Append(calls, Call(cur.task_id, "setup", "ok"))
               /\ UNCHANGED cur
          ELSE /\ cur' = FailTask(cur, SetupError)
               /\ pc' = PcAfterSetup(TRUE)
               /\ calls' = Append(calls, Call(cur.task_id, "setup", "raise"))
    /\ UNCHANGED <<registry, target_tasks, resolved, config, initial_inputs,
                   result, returned, idx, available_outputs>>
    /\ UNCHANGED <<regVars, storeVars, apiVars>>

\* lines 189-197: await task.execute(), then _save_task_outputs, which makes
\* the task directory (lines 269-270) and copies the files; when it raises,
\* the directory was made or not
ExecuteTask ==
    /\ pc = "execute"
    /\ \/ /\ cur' = [cur EXCEPT !.exc = ExecuteError]
          /\ calls' = Append(calls, Call(cur.task_id, "execute", "raise"))
          /\ pc' = PcAfterExecute(TRUE)
          /\ UNCHANGED records
       \/ \E task_outputs \in ExecuteOutputs(cur.task_id, cur.inputs), save_ok \in BOOLEAN :
             IF save_ok
             THEN /\ cur' = [cur EXCEPT
                                !.outputs = save_task_outputs(cur.task_id, task_outputs),
                                !.has_outputs = TRUE,
                                !.status = "completed"]
                  /\ calls' = Append(calls, Call(cur.task_id, "execute", "ok"))
                  /\ pc' = PcAfterExecute(FALSE)
                  /\ records' = EnsureDir(records, flows.current)
             ELSE /\ cur' = [cur EXCEPT !.exc = SaveError]
                  /\ calls' = Append(calls, Call(cur.task_id, "execute", "save_raise"))
                  /\ pc' = PcAfterExecute(TRUE)
                  /\ records' \in {records, EnsureDir(records, flows.current)}
    /\ UNCHANGED <<registry, target_tasks, resolved, config, initial_inputs,
                   result, returned, idx, available_outputs>>
    /\ UNCHANGED <<regVars, index, log, procs, apiVars>>

\* lines 199-209: await task.cleanup(), then the except clause and end_time
CleanupTask ==
    /\ pc = "cleanup"
    /\ \E ok \in BOOLEAN :
          /\ cur' = FinishTask(cur, ok)
          /\ calls' = Append(calls, Call(cur.task_id, "cleanup",
                                         IF ok THEN "ok" ELSE "raise"))
    /\ pc' = "record"
    /\ UNCHANGED <<registry, target_tasks, resolved, config, initial_inputs,
                   result, returned, idx, available_outputs>>
    /\ UNCHANGED <<regVars, storeVars, apiVars>>

\* lines 109-123: record the TaskExecution, stop on failure, else merge
RecordTask ==
    /\ pc = "record"
    /\ LET done == [cur EXCEPT !.ended = TRUE, !.exc = NoError]
           recorded == [result EXCEPT !.task_executions = DictSet(@, done)]
       IN IF BreaksLoop(done)
          THEN /\ result' = [recorded EXCEPT
                                !.status = "failed",
                                !.error_message = TaskFailed(done.task_id,
                                                             done.error_message)]
               /\ pc' = "finalize"
               /\ UNCHANGED <<idx, available_outputs>>
          ELSE /\ result' = recorded
               /\ available_outputs' =
                     IF done.has_outputs
                     THEN MergeOutputs(available_outputs, done.outputs)
                     ELSE available_outputs
               /\ idx' = idx + 1
               /\ pc' = LoopPc(idx + 1, resolved.order)
    /\ cur' = NoTask
    /\ UNCHANGED <<registry, target_tasks, resolved, config, initial_inputs,
                   returned, calls>>
    /\ UNCHANGED <<regVars, storeVars, apiVars>>

\* lines 125-130: final status and final outputs, end time
FinalizePipeline ==
    /\ pc = "finalize"
    /\ result' = IF result.status # "failed"
                 THEN [result EXCEPT !.status = "completed",
                                     !.has_final = TRUE,
                                     !.final_outputs = available_outputs,
                                     !.ended = TRUE]
                 ELSE [result EXCEPT !.ended = TRUE]
    /\ pc' = "save_metadata"
    /\ UNCHANGED <<registry, target_tasks, resolved, config, initial_inputs,
                   returned, idx, available_outputs, cur, calls>>
    /\ UNCHANGED <<regVars, storeVars, apiVars>>

\* lines 133-147: await _save_pipeline_metadata, which returns or raises into
\* "except Exception", then return result; open(metadata_file, 'w') raises
\* when the pipeline directory is not there
SavePipelineMetadata ==
    /\ pc = "save_metadata"
    /\ \E metadata_ok \in (IF flows.current \in DOMAIN records THEN BOOLEAN
                            ELSE {FALSE}) :
          result' = IF metadata_ok THEN result
                    ELSE PipelineFailed(result, MetadataError)
    /\ pc' = "returned"
    /\ returned' = "result"
    /\ UNCHANGED <<registry, target_tasks, resolved, config, initial_inputs,
                   idx, available_outputs, cur, calls>>
    /\ UNCHANGED <<regVars, storeVars, apiVars>>

(***************************************************************************)
(* Specification of the executor: one execute_pipeline call.               *)
(***************************************************************************)
\* no storage operation was made: an empty base directory
StorageIdle ==
    /\ records = EmptyMap
    /\ index = [state |-> "absent", entries |-> <<>>]
    /\ log = <<>>
    /\ procs = EmptyMap

\* no validate_task_chain call was made
NotValidated ==
    [called |-> FALSE, valid |-> FALSE, issues |-> <<>>, execution_order |-> Null]

\* no background job was queued
NoJob == [pc |-> "none", tasks |-> <<>>, template |-> Null]

\* no request was answered
NoRequests == [deleted |-> FALSE, response |-> [op |-> "none"]]

\* one execute_pipeline call, for pipeline p1, and no suspended one
OneFlow == [current |-> "p1", frames |-> EmptyMap]

\* the API was not used: no request, no job, one pipeline
ApiIdle ==
    /\ validation = NotValidated
    /\ active_pipelines = EmptyMap
    /\ job = NoJob
    /\ api = NoRequests
    /\ flows = OneFlow

\* no execute_pipeline call was made
ExecutorIdle ==
    /\ config = <<>>
    /\ initial_inputs = EmptyMap
    /\ pc = "idle"
    /\ result = NoResult
    /\ returned = "nothing"
    /\ idx = 0
    /\ available_outputs = EmptyCarrier
    /\ cur = NoTask
    /\ calls = <<>>

Init ==
    /\ registry \in ExecRegistries
    /\ task_types = TypesFor(registry)
    /\ reg_log = <<>>
    /\ ApiIdle
    /\ StorageIdle
    /\ config \in Configs
    /\ initial_inputs \in InitialInputChoices
    /\ target_tasks = <<>>
    /\ resolved = NotCalled
    /\ pc = "idle"
    /\ result = NoResult
    /\ returned = "nothing"
    /\ idx = 0
    /\ available_outputs = EmptyCarrier
    /\ cur = NoTask
    /\ calls = <<>>

Next ==
    \/ StartPipeline
    \/ DispatchTask
    \/ SetupTask
    \/ ExecuteTask
    \/ CleanupTask
    \/ RecordTask
    \/ FinalizePipeline
    \/ SavePipelineMetadata

Spec == Init /\ [][Next]_vars

(***************************************************************************)
(* Specification of two pipelines on one executor: two execute_pipeline    *)
(* calls with different pipeline ids run as coroutines of one event loop.  *)
(* The locals of the call that runs are the executor variables above; the  *)
(* locals of a suspended call are kept in its frame.  The registry and     *)
(* the base directory are shared.                                          *)
(***************************************************************************)
FlowIds == {"p1", "p2"}

\* the locals of the execute_pipeline call that runs
CurrentFrame ==
    [target_tasks |-> target_tasks, resolved |-> resolved, config |-> config,
     initial_inputs |-> initial_inputs, pc |-> pc, result |-> result,
     returned |-> returned, idx |-> idx, available_outputs |-> available_outputs,
     cur |-> cur, calls |-> calls]

\* the locals of a call that has not begun
NewFrame(cfg, initial) ==
    [target_tasks |-> <<>>, resolved |-> NotCalled, config |-> cfg,
     initial_inputs |-> initial, pc |-> "idle", result |-> NoResult,
     returned |-> "nothing", idx |-> 0, available_outputs |-> EmptyCarrier,
     cur |-> NoTask, calls |-> <<>>]

\* a call can be suspended where it awaits a task method (lines 185, 189,
\* 201), before it begins and after it has returned
AtSuspension == pc \in {"idle", "setup", "execute", "cleanup", "returned"}

\* the available outputs kept on the executor instead of in the call
ResumedOutputsOfExecutor(frame, shared) == shared

\* available_outputs is a local of execute_pipeline (line 81): a resumed call
\* finds the one of its frame
ResumedOutputs(frame, shared) == frame.available_outputs

\* what each of the two calls is given
FlowConfig ==
    [p \in FlowIds |->
        IF p = "p1" THEN <<TaskConfig("A", EmptyMap)>> ELSE <<TaskConfig("B", Wired)>>]

FlowInitialInputs ==
    [p \in FlowIds |->
        IF p = "p1"
        THEN {[k \in {"pdf", "x"} |->
                 IF k = "pdf" THEN Path(UploadDir, "text", FALSE)
                 ELSE Path(UploadDir, "init", FALSE)]}
        ELSE {EmptyMap, [k \in {"pdf"} |-> Path(UploadDir, "book.pdf", TRUE)]}]

InitTwoPipelines ==
    /\ registry = RegChain
    /\ task_types = TypesFor(registry)
    /\ reg_log = <<>>
    /\ StorageIdle
    /\ validation = NotValidated
    /\ active_pipelines = EmptyMap
    /\ job = NoJob
    /\ api = NoRequests
    /\ config = FlowConfig["p1"]
    /\ initial_inputs \in FlowInitialInputs["p1"]
    /\ \E initial \in FlowInitialInputs["p2"] :
          flows = [current |-> "p1",
                   frames |-> [p \in {"p2"} |-> NewFrame(FlowConfig["p2"], initial)]]
    /\ target_tasks = <<>>
    /\ resolved = NotCalled
    /\ pc = "idle"
    /\ result = NoResult
    /\ returned = "nothing"
    /\ idx = 0
    /\ available_outputs = EmptyCarrier
    /\ cur = NoTask
    /\ calls = <<>>

\* the event loop suspends the call that runs and resumes the call q
ResumeFlow(q) ==
    /\ AtSuspension
    /\ q \in DOMAIN flows.frames
    /\ flows' = [current |-> q,
                 frames |-> [p \in ((DOMAIN flows.frames) \ {q}) \cup {flows.current} |->
                                IF p = flows.current THEN CurrentFrame
                                ELSE flows.frames[p]]]
    /\ target_tasks' = flows.frames[q].target_tasks
    /\ resolved' = flows.frames[q].resolved
    /\ config' = flows.frames[q].config
    /\ initial_inputs' = flows.frames[q].initial_inputs
    /\ pc' = flows.frames[q].pc
    /\ result' = flows.frames[q].result
    /\ returned' = flows.frames[q].returned
    /\ idx' = flows.frames[q].idx
    /\ available_outputs' = ResumedOutputs(flows.frames[q], available_outputs)
    /\ cur' = flows.frames[q].cur
    /\ calls' = flows.frames[q].calls
    /\ UNCHANGED <<registry, regVars, storeVars, validation, active_pipelines,
                   job, api>>

NextTwoPipelines ==
    \/ StartPipeline
    \/ DispatchTask
    \/ SetupTask
    \/ ExecuteTask
    \/ CleanupTask
    \/ RecordTask
    \/ FinalizePipeline
    \/ SavePipelineMetadata
    \/ \E q \in FlowIds : ResumeFlow(q)

SpecTwoPipelines == InitTwoPipelines /\ [][NextTwoPipelines]_vars

(***************************************************************************)
(* Specification of the registry: a registry is drawn, then                *)
(* resolve_dependencies is called on a requested list.                     *)
(***************************************************************************)
DepLists == {AsList(S) : S \in {S \in SUBSET Dependables : Cardinality(S) <= MaxDeps}}

\* the registries that register_task can build
Registries ==
    UNION {[S -> {Metadata(d, <<>>, "default") : d \in DepLists}] : S \in SUBSET Tasks}

InitResolve ==
    /\ registry \in Registries
    /\ task_types = TypesFor(registry)
    /\ reg_log = <<>>
    /\ ApiIdle
    /\ StorageIdle
    /\ target_tasks \in SeqsUpTo(Tasks, MaxTargets)
    /\ resolved = NotCalled
    /\ config = <<>>
    /\ initial_inputs = EmptyMap
    /\ pc = "idle"
    /\ result = NoResult
    /\ returned = "nothing"
    /\ idx = 0
    /\ available_outputs = EmptyCarrier
    /\ cur = NoTask
    /\ calls = <<>>

\* a caller calls registry.resolve_dependencies(target_tasks)
ResolveCall ==
    /\ resolved = NotCalled
    /\ resolved' \in resolve_dependencies(registry, target_tasks)
    /\ UNCHANGED <<registry, target_tasks>>
    /\ UNCHANGED <<execVars, apiVars, regVars, storeVars>>

NextResolve == ResolveCall

SpecResolve == InitResolve /\ [][NextResolve]_vars

(***************************************************************************)
(* Specification of registration: classes are registered on an empty       *)
(* registry, and resolve_dependencies is called in between.                *)
(***************************************************************************)
\* two classes for A, two for B, one for C
TaskClasses ==
    {TaskClass("A1", "A", <<>>), TaskClass("A2", "A", <<"B">>),
     TaskClass("B1", "B", <<>>), TaskClass("B2", "B", <<"A">>),
     TaskClass("C1", "C", <<"A", "B">>)}

InitRegister ==
    /\ registry = EmptyMap
    /\ task_types = <<>>
    /\ reg_log = <<>>
    /\ ApiIdle
    /\ target_tasks = <<>>
    /\ resolved = NotCalled
    /\ ExecutorIdle
    /\ StorageIdle

\* registry.register_task(task_class)
RegisterTask ==
    /\ Len(reg_log) < MaxRegistrations
    /\ \E task_class \in TaskClasses :
          /\ task_types' = register_task_types(task_types, task_class)
          /\ registry' = register_task_metadata(registry, task_class)
          /\ reg_log' = Append(reg_log, task_class)
    /\ target_tasks' = <<>>
    /\ resolved' = NotCalled
    /\ UNCHANGED <<execVars, apiVars, storeVars>>

\* registry.resolve_dependencies(targets) on the registry as it is now
ResolveRegistered ==
    /\ \E targets \in SeqsUpTo(Tasks, MaxTargets) :
          /\ target_tasks' = targets
          /\ resolved' \in resolve_dependencies(registry, targets)
    /\ UNCHANGED <<registry, execVars, apiVars, regVars, storeVars>>

NextRegister == RegisterTask \/ ResolveRegistered

SpecRegister == InitRegister /\ [][NextRegister]_vars

(***************************************************************************)
(* Specification of chain validation: a registry whose tasks declare input *)
(* and output kinds is drawn, then validate_task_chain is called.          *)
(***************************************************************************)
\* TaskMetadata with its output_types
MetadataWithOutputs(deps, input_types, output_types) ==
    [dependencies |-> deps, input_types |-> input_types, validates |-> "default",
     output_types |-> output_types]

\* the dependencies a task may declare
ChainDeps ==
    [t \in {"A", "B", "C"} |->
        CASE t = "A" -> {<<>>}
          [] t = "B" -> {<<>>, <<"A">>}
          [] t = "C" -> {<<"B">>, <<"C">>}]

ChainInputTypes == {<<>>, <<"pdf">>, <<"foo">>}

ChainOutputTypes == {<<>>, <<"foo">>}

ChainRegistries ==
    UNION {{reg \in [S -> {MetadataWithOutputs(d, i, o) :
                              d \in UNION {ChainDeps[t] : t \in S},
                              i \in ChainInputTypes, o \in ChainOutputTypes}] :
               \A t \in S : reg[t].dependencies \in ChainDeps[t]} :
           S \in SUBSET {"A", "B", "C"}}

InitValidate ==
    /\ registry \in ChainRegistries
    /\ task_types = TypesFor(registry)
    /\ reg_log = <<>>
    /\ ApiIdle
    /\ target_tasks \in SeqsUpTo(Tasks, MaxTargets)
    /\ resolved = NotCalled
    /\ ExecutorIdle
    /\ StorageIdle

\* a caller calls registry.validate_task_chain(target_tasks)
ValidateCall ==
    /\ ~validation.called
    /\ \E v \in validate_task_chain(task_types, registry, target_tasks) :
          /\ validation' = v.validation
          /\ resolved' = v.resolved
    /\ UNCHANGED <<registry, target_tasks, execVars, regVars, storeVars,
                   active_pipelines, job, api, flows>>

NextValidate == ValidateCall

SpecValidate == InitValidate /\ [][NextValidate]_vars

(***************************************************************************)
(* PipelineStorage (src/src/pipelines/storage.py): conversions             *)
(***************************************************************************)
\* a datetime (seconds and microseconds), and None
Time(sec, micro) == [none |-> FALSE, sec |-> sec, micro |-> micro]
NoneTime == [none |-> TRUE, sec |-> 0, micro |-> 0]

\* datetime.isoformat(): the text, as its fields; the microseconds are
\* written only when they are not zero
isoformat_seconds(dt) == <<dt.sec>>

isoformat(dt) == IF dt.micro = 0 THEN <<dt.sec>> ELSE <<dt.sec, dt.micro>>

\* datetime.fromisoformat(text)
fromisoformat(text) == Time(text[1], IF Len(text) >= 2 THEN text[2] ELSE 0)

\* "x.isoformat() if x else None"
TimeToJson(dt) == IF dt.none THEN Null ELSE isoformat(dt)

\* "datetime.fromisoformat(x) if x else None"
TimeFromJson(text) == IF text = Null THEN NoneTime ELSE fromisoformat(text)

\* str < str on such texts: field by field, a proper prefix being smaller
RECURSIVE TextLess(_, _)
TextLess(a, b) ==
    IF b = <<>> THEN FALSE
    ELSE IF a = <<>> THEN TRUE
    ELSE IF Head(a) # Head(b) THEN Head(a) < Head(b)
    ELSE TextLess(Tail(a), Tail(b))

\* the members of TaskStatus and their values
TaskStatus ==
    [PENDING |-> "pending", RUNNING |-> "running", COMPLETED |-> "completed",
     FAILED |-> "failed", SKIPPED |-> "skipped"]

\* status.value
StatusValue(status) == TaskStatus[status]

\* TaskStatus(value)
StatusOf(value) == CHOOSE status \in DOMAIN TaskStatus : TaskStatus[status] = value

\* a TaskExecution as storage sees it
StoredExecution(task_id, status, start_time, end_time, error_message) ==
    [task_id |-> task_id, status |-> status, start_time |-> start_time,
     end_time |-> end_time, error_message |-> error_message]

\* a PipelineResult as storage sees it; serializable says whether its config
\* and outputs hold only values json.dump can write
StoredResult(pipeline_id, status, start_time, end_time, error_message, execs, serializable) ==
    [pipeline_id |-> pipeline_id, status |-> status, start_time |-> start_time,
     end_time |-> end_time, error_message |-> error_message,
     task_executions |-> execs, serializable |-> serializable]

\* _serialize_result
serialize_result(r) ==
    [pipeline_id |-> r.pipeline_id,
     status |-> StatusValue(r.status),
     start_time |-> isoformat(r.start_time),
     end_time |-> TimeToJson(r.end_time),
     error_message |-> r.error_message,
     task_executions |->
        [i \in DOMAIN r.task_executions |->
            [task_id |-> r.task_executions[i].task_id,
             status |-> StatusValue(r.task_executions[i].status),
             start_time |-> TimeToJson(r.task_executions[i].start_time),
             end_time |-> TimeToJson(r.task_executions[i].end_time),
             error_message |-> r.task_executions[i].error_message]]]

\* _deserialize_result
deserialize_result(data) ==
    StoredResult(data.pipeline_id, StatusOf(data.status),
                 fromisoformat(data.start_time), TimeFromJson(data.end_time),
                 data.error_message,
                 [i \in DOMAIN data.task_executions |->
                     StoredExecution(data.task_executions[i].task_id,
                                     StatusOf(data.task_executions[i].status),
                                     TimeFromJson(data.task_executions[i].start_time),
                                     TimeFromJson(data.task_executions[i].end_time),
                                     data.task_executions[i].error_message)],
                 TRUE)

\* pipeline_summary of _update_pipeline_index
pipeline_summary(r) ==
    [pipeline_id |-> r.pipeline_id,
     status |-> StatusValue(r.status),
     start_time |-> isoformat(r.start_time),
     end_time |-> TimeToJson(r.end_time),
     error_message |-> r.error_message]

(***************************************************************************)
(* PipelineStorage: the files and the operations.  fault names the I/O     *)
(* failure the operation meets, "none" when it meets none.                 *)
(***************************************************************************)
\* pipeline_index.json: absent, a list of summaries, or not JSON
NoIndex == [state |-> "absent", entries |-> <<>>]
IndexOf(entries) == [state |-> "ok", entries |-> entries]
CorruptIndex == [state |-> "corrupt", entries |-> <<>>]

Disk(recs, index_file) == [records |-> recs, index |-> index_file]

\* shutil.rmtree(pipeline_dir)
RemoveRecord(recs, pipeline_id) ==
    [p \in (DOMAIN recs) \ {pipeline_id} |-> recs[p]]

\* "[p for p in pipelines if p.get('pipeline_id') != pipeline_id]"
WithoutEntry(pipelines, pipeline_id) ==
    SelectSeq(pipelines, LAMBDA p : p.pipeline_id # pipeline_id)

\* _update_pipeline_index, lines 243-249: the index as read, [] when the file
\* is absent or cannot be read
read_index(index_file, fault) ==
    IF index_file.state = "ok" /\ fault # "index_read" THEN index_file.entries ELSE <<>>

\* _update_pipeline_index, lines 252-267: the list that is written back
updated_entries(pipelines, r) ==
    Append(WithoutEntry(pipelines, r.pipeline_id), pipeline_summary(r))

\* "with open(index_file, 'w') as f: json.dump(pipelines, f)": open may fail
\* and leave the file as it was, the dump may fail and leave it cut short
write_index(index_file, pipelines, fault) ==
    IF fault = "index_open" THEN [index |-> index_file, raised |-> TRUE]
    ELSE IF fault = "index_dump" THEN [index |-> CorruptIndex, raised |-> TRUE]
    ELSE [index |-> IndexOf(pipelines), raised |-> FALSE]

\* _update_pipeline_index
update_pipeline_index(index_file, r, fault) ==
    write_index(index_file, updated_entries(read_index(index_file, fault), r), fault)

\* save_pipeline_result
save_pipeline_result(disk, r, fault) ==
    IF ~r.serializable
    THEN [disk |-> Disk(PutRecord(disk.records, r.pipeline_id, PartialFile),
                        disk.index),
          outcome |-> "raised"]
    ELSE LET u == update_pipeline_index(disk.index, r, fault) IN
         [disk |-> Disk(PutRecord(disk.records, r.pipeline_id,
                                  JsonFile(serialize_result(r))),
                        u.index),
          outcome |-> IF u.raised THEN "raised" ELSE "returned"]

\* load_pipeline_result
load_pipeline_result(disk, pipeline_id) ==
    IF pipeline_id \notin DOMAIN disk.records
    THEN [found |-> FALSE]
    ELSE IF disk.records[pipeline_id].kind # "json"
    THEN [found |-> FALSE]
    ELSE [found |-> TRUE,
          result |-> deserialize_result(disk.records[pipeline_id].data)]

\* the place of e in a list sorted oldest first
RECURSIVE InsertOldestFirst(_, _)
InsertOldestFirst(sorted, e) ==
    IF sorted = <<>> THEN <<e>>
    ELSE IF TextLess(e.start_time, Head(sorted).start_time)
    THEN <<e>> \o sorted
    ELSE <<Head(sorted)>> \o InsertOldestFirst(Tail(sorted), e)

\* the place of e in a list sorted newest first: before the first entry
\* whose start_time is smaller
RECURSIVE InsertNewestFirst(_, _)
InsertNewestFirst(sorted, e) ==
    IF sorted = <<>> THEN <<e>>
    ELSE IF TextLess(Head(sorted).start_time, e.start_time)
    THEN <<e>> \o sorted
    ELSE <<Head(sorted)>> \o InsertNewestFirst(Tail(sorted), e)

\* pipelines.sort(key=start_time, reverse=True): a stable sort
RECURSIVE SortNewestFirst(_)
SortNewestFirst(pipelines) ==
    IF pipelines = <<>> THEN <<>>
    ELSE InsertNewestFirst(SortNewestFirst(SubSeq(pipelines, 1, Len(pipelines) - 1)),
                           pipelines[Len(pipelines)])

\* list_pipelines; status "ANY" and limit 0 stand for None
list_pipelines(disk, status, limit) ==
    IF disk.index.state # "ok" THEN <<>>
    ELSE LET filtered == IF status # "ANY"
                         THEN SelectSeq(disk.index.entries,
                                        LAMBDA p : p.status = StatusValue(status))
                         ELSE disk.index.entries
             sorted == SortNewestFirst(filtered)
         IN IF limit # 0 /\ limit < Len(sorted) THEN SubSeq(sorted, 1, limit)
            ELSE sorted

\* _remove_from_index without the filter
remove_from_index_keeps(index_file, pipeline_id, fault) ==
    IF index_file.state = "ok" THEN write_index(index_file, index_file.entries, fault).index ELSE index_file

\* _remove_from_index: any exception is logged and swallowed
remove_from_index(index_file, pipeline_id, fault) ==
    IF index_file.state = "absent" THEN index_file
    ELSE IF index_file.state = "corrupt" \/ fault = "index_read" THEN index_file
    ELSE write_index(index_file, WithoutEntry(index_file.entries, pipeline_id), fault).index

\* delete_pipeline
delete_pipeline(disk, pipeline_id, fault) ==
    IF pipeline_id \notin DOMAIN disk.records
    THEN [disk |-> disk, value |-> FALSE]
    ELSE IF fault = "rmtree"
    THEN [disk |-> disk, value |-> FALSE]
    ELSE IF fault = "rmtree_partial"
    THEN [disk |-> Disk(PutRecord(disk.records, pipeline_id, MissingFile),
                        disk.index),
          value |-> FALSE]
    ELSE [disk |-> Disk(RemoveRecord(disk.records, pipeline_id),
                        remove_from_index(disk.index, pipeline_id, fault)),
          value |-> TRUE]

(***************************************************************************)
(* Specifications of storage: operations one after another, without       *)
(* (SpecStorage) and with (SpecStorageFaults) failures of the file system. *)
(***************************************************************************)
PipelineIds == {"p1", "p2"}

\* the executions of a stored result: B completed, then A as the pipeline
ExecutionsOf(status, start_time, end_time, error_message) ==
    <<StoredExecution("B", "COMPLETED", start_time, start_time, "None"),
      StoredExecution("A", status, start_time, end_time, error_message)>>

\* the shapes of the results handed to save_pipeline_result
ResultShapes(pipeline_id) ==
    {StoredResult(pipeline_id, "FAILED", Time(1, 0), Time(2, 0), "boom",
                  ExecutionsOf("FAILED", Time(1, 0), Time(2, 0), "boom"), TRUE),
     StoredResult(pipeline_id, "FAILED", Time(1, 5), Time(2, 5), "boom",
                  ExecutionsOf("FAILED", Time(1, 5), Time(2, 5), "boom"), TRUE),
     StoredResult(pipeline_id, "COMPLETED", Time(1, 0), Time(1, 5), "None",
                  ExecutionsOf("COMPLETED", Time(1, 0), Time(1, 5), "None"), TRUE),
     StoredResult(pipeline_id, "COMPLETED", Time(1, 5), Time(2, 0), "None",
                  ExecutionsOf("COMPLETED", Time(1, 5), Time(2, 0), "None"), TRUE),
     StoredResult(pipeline_id, "RUNNING", Time(1, 5), NoneTime, "None",
                  ExecutionsOf("RUNNING", Time(1, 5), NoneTime, "None"), TRUE),
     StoredResult(pipeline_id, "COMPLETED", Time(1, 0), Time(2, 0), "None",
                  ExecutionsOf("COMPLETED", Time(1, 0), Time(2, 0), "None"), FALSE)}

Results == UNION {ResultShapes(p) : p \in PipelineIds}

NoFaults == {"none"}
IndexFaults == {"none", "index_read", "index_open", "index_dump"}
DeleteFaults == IndexFaults \cup {"rmtree", "rmtree_partial"}

\* the files as they are now
CurrentDisk == Disk(records, index)

\* an entry of the log: the operation, its arguments, what it gave, and the
\* files when it ended
LogEntry(op, pipeline_id, arg, value, disk) ==
    [op |-> op, pipeline_id |-> pipeline_id, arg |-> arg, value |-> value,
     disk |-> disk]

InitStorage ==
    /\ registry = EmptyMap
    /\ task_types = <<>>
    /\ reg_log = <<>>
    /\ ApiIdle
    /\ target_tasks = <<>>
    /\ resolved = NotCalled
    /\ ExecutorIdle
    /\ StorageIdle

\* storage.save_pipeline_result(r)
SaveResult(faults) ==
    /\ Len(log) < MaxOps
    /\ \E r \in Results, fault \in faults :
          LET s == save_pipeline_result(CurrentDisk, r, fault) IN
          /\ records' = s.disk.records
          /\ index' = s.disk.index
          /\ log' = Append(log, LogEntry("save", r.pipeline_id, r, s.outcome, s.disk))
    /\ UNCHANGED <<registry, target_tasks, resolved, execVars, apiVars, regVars, procs>>

\* storage.load_pipeline_result(pipeline_id)
LoadResult ==
    /\ Len(log) < MaxOps
    /\ \E p \in PipelineIds :
          log' = Append(log, LogEntry("load", p, "", load_pipeline_result(CurrentDisk, p),
                                      CurrentDisk))
    /\ UNCHANGED <<registry, target_tasks, resolved, execVars, apiVars, regVars,
                   records, index, procs>>

\* storage.list_pipelines(status, limit)
ListPipelines ==
    /\ Len(log) < MaxOps
    /\ \E status \in {"ANY", "FAILED"}, limit \in {0, 1} :
          log' = Append(log, LogEntry("list", "", <<status, limit>>,
                                      list_pipelines(CurrentDisk, status, limit),
                                      CurrentDisk))
    /\ UNCHANGED <<registry, target_tasks, resolved, execVars, apiVars, regVars,
                   records, index, procs>>

\* storage.delete_pipeline(pipeline_id)
DeletePipeline(faults) ==
    /\ Len(log) < MaxOps
    /\ \E p \in PipelineIds, fault \in faults :
          LET d == delete_pipeline(CurrentDisk, p, fault) IN
          /\ records' = d.disk.records
          /\ index' = d.disk.index
          /\ log' = Append(log, LogEntry("delete", p, "", d.value, d.disk))
    /\ UNCHANGED <<registry, target_tasks, resolved, execVars, apiVars, regVars, procs>>

NextStorage ==
    \/ SaveResult(NoFaults)
    \/ LoadResult
    \/ ListPipelines
    \/ DeletePipeline(NoFaults)

SpecStorage == InitStorage /\ [][NextStorage]_vars

NextStorageFaults ==
    \/ SaveResult(IndexFaults)
    \/ LoadResult
    \/ ListPipelines
    \/ DeletePipeline(DeleteFaults)

SpecStorageFaults == InitStorage /\ [][NextStorageFaults]_vars

(***************************************************************************)
(* Specification of concurrent saves: two callers (threads or processes    *)
(* on the same base directory) save one pipeline each; the code takes no   *)
(* lock, so their file operations interleave.                              *)
(***************************************************************************)
Writers == {"w1", "w2"}

\* the pipeline each caller saves
WriterPipeline == [w \in Writers |-> IF w = "w1" THEN "p1" ELSE "p2"]

\* a save call about to start
SaveCall(r) == [pc |-> "start", result |-> r, pipelines |-> <<>>]

\* the base directory before the two calls: empty, or holding pipeline p0
InitialDisks ==
    {Disk(EmptyMap, NoIndex)}
    \cup {save_pipeline_result(Disk(EmptyMap, NoIndex), r, "none").disk :
             r \in {r \in ResultShapes("p0") : r.serializable /\ r.status = "FAILED"}}

InitConcurrent ==
    /\ registry = EmptyMap
    /\ task_types = <<>>
    /\ reg_log = <<>>
    /\ ApiIdle
    /\ target_tasks = <<>>
    /\ resolved = NotCalled
    /\ ExecutorIdle
    /\ \E d \in InitialDisks : records = d.records /\ index = d.index
    /\ log = <<>>
    /\ procs \in {f \in [Writers -> {SaveCall(r) : r \in Results}] :
                     \A w \in Writers : f[w].result.pipeline_id = WriterPipeline[w]}

\* the number of decimal digits of a natural number
RECURSIVE Digits(_)
Digits(n) == IF n < 10 THEN 1 ELSE 1 + Digits(n \div 10)

\* the digits of a six-digit fraction that repr() writes: the trailing zeros
\* are dropped
RECURSIVE FractionDigits(_, _)
FractionDigits(micro, width) ==
    IF micro % 10 = 0 THEN FractionDigits(micro \div 10, width - 1) ELSE width

\* the length of the text json.dump writes for duration_seconds, the float
\* timedelta.total_seconds() of a duration given in microseconds: "1.0",
\* "0.999995", and the exponent form below 0.0001 ("5e-06", "1.5e-05")
FloatSize(micro) ==
    IF micro % 1000000 = 0 THEN Digits(micro \div 1000000) + 2
    ELSE IF micro < 10 THEN 5
    ELSE IF micro < 100 THEN (IF micro % 10 = 0 THEN 5 ELSE 7)
    ELSE Digits(micro \div 1000000) + 1 + FractionDigits(micro % 1000000, 6)

\* the length of the text json.dump writes for an isoformat text or null:
\* "YYYY-MM-DDTHH:MM:SS" in quotes, with ".ffffff" when there are microseconds
TimeTextSize(text) ==
    IF text = Null THEN 4 ELSE IF Len(text) >= 2 THEN 28 ELSE 21

\* the length of the text json.dump writes for duration_seconds of a summary
DurationSize(e) ==
    IF e.end_time = Null THEN 4
    ELSE LET a == fromisoformat(e.start_time)
             b == fromisoformat(e.end_time)
         IN FloatSize((b.sec - a.sec) * 1000000 + b.micro - a.micro)

\* the length of the text json.dump(indent=2) writes for one summary of the
\* index: the keys, their quotes and the indentation, a two-letter
\* pipeline_id, and name, description and task_count of one letter each,
\* come to 198
SummarySize(e) ==
    198 + (CASE e.status = "completed" -> 9 [] e.status = "failed" -> 6 [] OTHER -> 7)
        + TimeTextSize(e.start_time) + TimeTextSize(e.end_time)
        + DurationSize(e)
        + (IF e.error_message = "None" THEN 4 ELSE 6)

RECURSIVE SummariesSize(_)
SummariesSize(pipelines) ==
    IF pipelines = <<>> THEN 0
    ELSE SummarySize(Head(pipelines)) + SummariesSize(Tail(pipelines))

\* the length of the text json.dump(pipelines, f, indent=2) writes: "[]", or
\* "[\n", the summaries separated by ",\n", and "\n]"
IndexSize(pipelines) ==
    IF pipelines = <<>> THEN 2
    ELSE 4 + SummariesSize(pipelines) + 2 * (Len(pipelines) - 1)

\* pipeline_index.json holding size characters that are no JSON text
GarbledIndex(size) == [state |-> "corrupt", entries |-> <<>>, size |-> size]

\* the length of pipeline_index.json
FileSize(index_file) ==
    IF index_file.state = "absent" THEN 0
    ELSE IF index_file.state = "ok" THEN IndexSize(index_file.entries)
    ELSE index_file.size

\* open(index_file, 'w'): the file is there and empty
OpenForWriting(index_file) == GarbledIndex(0)

\* json.dump and close on a file opened earlier: the text is written from the
\* start of the file, over what another caller has written since; what the
\* other text has beyond its length stays
DumpFromStart(index_file, pipelines) ==
    IF IndexSize(pipelines) >= FileSize(index_file) THEN IndexOf(pipelines)
    ELSE GarbledIndex(FileSize(index_file))

\* save_pipeline_result, lines 42-43: pipeline_dir.mkdir(parents=True, exist_ok=True)
SaveMakeDir(w) ==
    /\ procs[w].pc = "start"
    /\ records' = EnsureDir(records, procs[w].result.pipeline_id)
    /\ procs' = [procs EXCEPT ![w].pc = "open_record"]
    /\ UNCHANGED <<registry, target_tasks, resolved, execVars, apiVars, regVars,
                   index, log>>

\* save_pipeline_result, line 47: open(result_file, 'w') leaves result.json
\* empty
SaveOpenRecord(w) ==
    /\ procs[w].pc = "open_record"
    /\ records' = PutRecord(records, procs[w].result.pipeline_id, PartialFile)
    /\ procs' = [procs EXCEPT ![w].pc = "dump_record"]
    /\ UNCHANGED <<registry, target_tasks, resolved, execVars, apiVars, regVars,
                   index, log>>

\* save_pipeline_result, lines 48-49: json.dump into result.json and close
SaveWriteRecord(w) ==
    /\ procs[w].pc = "dump_record"
    /\ LET r == procs[w].result IN
       IF ~r.serializable
       THEN /\ records' = PutRecord(records, r.pipeline_id, PartialFile)
            /\ procs' = [procs EXCEPT ![w].pc = "raised"]
            /\ log' = Append(log, LogEntry("save", r.pipeline_id, r, "raised",
                                           Disk(records', index)))
       ELSE /\ records' = PutRecord(records, r.pipeline_id,
                                    JsonFile(serialize_result(r)))
            /\ procs' = [procs EXCEPT ![w].pc = "read_index"]
            /\ UNCHANGED log
    /\ UNCHANGED <<registry, target_tasks, resolved, execVars, apiVars, regVars, index>>

\* _update_pipeline_index, lines 240-249: read the index
SaveReadIndex(w) ==
    /\ procs[w].pc = "read_index"
    /\ procs' = [procs EXCEPT ![w].pipelines = read_index(index, "none"),
                              ![w].pc = "write_index"]
    /\ UNCHANGED <<registry, target_tasks, resolved, execVars, apiVars, regVars,
                   records, index, log>>

\* _update_pipeline_index, lines 251-270: replace the entry in the list, then
\* open(index_file, 'w') leaves pipeline_index.json empty
SaveOpenIndex(w) ==
    /\ procs[w].pc = "write_index"
    /\ index' = OpenForWriting(index)
    /\ procs' = [procs EXCEPT ![w].pipelines = updated_entries(procs[w].pipelines,
                                                               procs[w].result),
                              ![w].pc = "dump_index"]
    /\ UNCHANGED <<registry, target_tasks, resolved, execVars, apiVars, regVars,
                   records, log>>

\* _update_pipeline_index, line 271: json.dump into pipeline_index.json and
\* close; save_pipeline_result returns
SaveWriteIndex(w) ==
    /\ procs[w].pc = "dump_index"
    /\ index' = DumpFromStart(index, procs[w].pipelines)
    /\ procs' = [procs EXCEPT ![w].pc = "returned"]
    /\ log' = Append(log, LogEntry("save", procs[w].result.pipeline_id,
                                   procs[w].result, "returned",
                                   Disk(records, index')))
    /\ UNCHANGED <<registry, target_tasks, resolved, execVars, apiVars, regVars, records>>

NextConcurrent ==
    \E w \in Writers :
       \/ SaveMakeDir(w)
       \/ SaveOpenRecord(w)
       \/ SaveWriteRecord(w)
       \/ SaveReadIndex(w)
       \/ SaveOpenIndex(w)
       \/ SaveWriteIndex(w)

SpecStorageConcurrent == InitConcurrent /\ [][NextConcurrent]_vars

(***************************************************************************)
(* The HTTP layer (src/src/pipelines/api.py): the execute endpoints, their *)
(* background jobs, and the status, list and delete endpoints, all on one  *)
(* event loop.  A job runs execute_pipeline of the module's executor       *)
(* and saves the result with the module's storage; both use the base       *)
(* directory "content/pipelines".  A request is handled while the job is   *)
(* suspended: before it begins, in an await of a task method, or after it. *)
(***************************************************************************)
\* the pipeline_id the execute endpoint generated
ApiPipeline == "p1"

\* request.tasks of the execute request
RequestTasks == {<<"A">>, <<"B">>, <<"D">>, <<"E">>}

\* position of an execute_pipeline call that no job has made yet
NotStarted == "not_started"

\* the tracking entry execute_custom_pipeline writes
Tracking(status, tasks) == [status |-> status, tasks |-> tasks]

\* the tracking entry the template endpoints write: it has no "tasks"
TemplateTracking(status, template_name) ==
    [status |-> status, template_name |-> template_name]

\* dict.update on a tracking entry
WithStatus(active, pipeline_id, status) ==
    [active EXCEPT ![pipeline_id] = [@ EXCEPT !.status = status]]

\* del active_pipelines[pipeline_id]
WithoutTracking(active, pipeline_id) ==
    [p \in (DOMAIN active) \ {pipeline_id} |-> active[p]]

\* lines 572-578: tasks=[TaskConfig(task_id=task_id) for task_id in request.tasks]
RequestConfig(tasks) == [i \in DOMAIN tasks |-> TaskConfig(tasks[i], EmptyMap)]

\* lines 581-585: the temporary file twice, and the uploaded file's name
RequestInitialInputs ==
    [k \in {"pdf", "pdf_file", "original_filename"} |->
        IF k = "original_filename" THEN Path(UploadDir, "book.pdf", FALSE)
        ELSE Path(UploadDir, "tmp.pdf", TRUE)]

\* the PipelineResult of the executor as save_pipeline_result reads it
AsStoredResult(pipeline_id, r, serializable) ==
    StoredResult(pipeline_id, StatusOf(r.status), Time(1, 0),
                 IF r.ended THEN Time(2, 0) ELSE NoneTime,
                 r.error_message,
                 [i \in DOMAIN r.task_executions |->
                     StoredExecution(r.task_executions[i].task_id,
                                     StatusOf(r.task_executions[i].status),
                                     Time(1, 0),
                                     IF r.task_executions[i].ended THEN Time(2, 0)
                                     ELSE NoneTime,
                                     r.task_executions[i].error_message)],
                 serializable)

\* the "except Exception" clause of the job, lines 614-621: it updates the
\* tracking entry, and raises KeyError itself when the entry is gone
JobExcept(active, pipeline_id) ==
    IF pipeline_id \in DOMAIN active
    THEN [active |-> WithStatus(active, pipeline_id, "failed"), pc |-> "done"]
    ELSE [active |-> active, pc |-> "crashed"]

\* the event loop can run a request handler: no job runs, or the job is
\* suspended in an await of a task method
JobSuspended ==
    \/ job.pc \in {"none", "queued", "done", "crashed"}
    \/ job.pc = "running" /\ pc \in {"setup", "execute", "cleanup"}

\* the _tasks dict of the global registry: the built-in classes first
GlobalTypes ==
    <<[task_id |-> "document_processing", cls |-> "DocumentProcessingTask"],
      [task_id |-> "summarization", cls |-> "SummarizationTask"]>>
    \o TypesFor(RegChain)

(***************************************************************************)
(* Pipeline templates (src/src/pipelines/templates.py).  A text is a list  *)
(* of its parts, so that "book.pdf" ends with ".pdf" and "tmpabc" starts   *)
(* with "tmp"; a JSON value is an object (a map), or an array.             *)
(***************************************************************************)
JsonObject(members) == [type |-> "object", members |-> members]
JsonArray == [type |-> "array", members |-> EmptyMap]

\* the three references of the summarization task of a template
SummaryRefs ==
    [k \in {"enhanced_markdown", "book_title", "main_folder"} |-> Ref(k)]

\* get_pipeline_templates: template name -> config.tasks
get_pipeline_templates ==
    [n \in {"document_to_summary", "complete_book_processing",
            "document_processing_only", "summarization_only"} |->
        CASE n \in {"document_to_summary", "complete_book_processing"} ->
                <<TaskConfig("document_processing", EmptyMap),
                  TaskConfig("summarization", SummaryRefs)>>
          [] n = "document_processing_only" ->
                <<TaskConfig("document_processing", EmptyMap)>>
          [] n = "summarization_only" ->
                <<TaskConfig("summarization", EmptyMap)>>]

\* lines 57-71: the inputs of a task updated with kwargs[task_id]["inputs"]
CustomizedTask(task, kwargs) ==
    IF task.task_id \in DOMAIN kwargs
    THEN TaskConfig(task.task_id, Update(task.inputs, kwargs[task.task_id].inputs))
    ELSE task

\* create_pipeline_from_template(template_name, **kwargs): config.tasks, or
\* ValueError for an unknown template
create_pipeline_from_template(template_name, kwargs) ==
    IF template_name \notin DOMAIN get_pipeline_templates
    THEN [raised |-> TRUE, tasks |-> <<>>]
    ELSE LET tasks == get_pipeline_templates[template_name] IN
         [raised |-> FALSE,
          tasks |-> IF kwargs = EmptyMap THEN tasks
                    ELSE [i \in DOMAIN tasks |-> CustomizedTask(tasks[i], kwargs)]]

\* the settings form field: the text "{}", a text that is no JSON, an
\* array, an object that sets an input of the summarization task, an
\* object that sets use_content_books_structure of document_processing to
\* false
SettingsTexts ==
    {[json |-> TRUE, value |-> JsonObject(EmptyMap)],
     [json |-> FALSE, value |-> Null],
     [json |-> TRUE, value |-> JsonArray],
     [json |-> TRUE,
      value |-> JsonObject([t \in {"summarization"} |->
                              [inputs |-> [k \in {"book_title"} |-> Lit("T")]]])],
     [json |-> TRUE,
      value |-> JsonObject([t \in {"document_processing"} |->
                              [inputs |-> [k \in {"use_content_books_structure"} |->
                                              Lit("False")]]])]}

\* the names of an uploaded file, and the custom_filename form field
Filenames == {<<"book", ".pdf">>, <<"tmp", "abc">>}
CustomFilenames == {Null, <<"Title">>, <<"My Book">>}

\* custom_filename.lower().strip()
LowerStrip(text) ==
    [i \in DOMAIN text |->
        CASE text[i] = "Title" -> "title" [] text[i] = "My Book" -> "my book"
          [] OTHER -> text[i]]

\* lines 484-489: a placeholder of the Swagger UI is no custom filename
swagger_placeholders ==
    {<<"string">>, <<"str">>, <<"text">>, <<"filename">>, <<"name">>, <<"title">>}

WithoutPlaceholder(custom_filename) ==
    IF custom_filename # Null /\ LowerStrip(custom_filename) \in swagger_placeholders
    THEN Null ELSE custom_filename

\* lines 492-497: the custom filename stands in for a temporary-looking one
effective_filename(filename, custom_filename) ==
    IF /\ custom_filename # Null
       /\ \/ filename = <<>>
          \/ filename[1] = "tmp"
          \/ \A i \in DOMAIN filename : filename[i] # ".pdf"
    THEN IF custom_filename[Len(custom_filename)] = ".pdf" THEN custom_filename
         ELSE custom_filename \o <<".pdf">>
    ELSE filename

\* lines 499-506: the initial inputs of the template job
TemplateInitialInputs(filename, custom_filename) ==
    LET custom == WithoutPlaceholder(custom_filename) IN
    [k \in {"pdf", "pdf_file", "original_filename"}
            \cup (IF custom # Null THEN {"custom_filename"} ELSE {}) |->
        CASE k = "original_filename" ->
                Path(UploadDir, effective_filename(filename, custom), FALSE)
          [] k = "custom_filename" -> Path(UploadDir, custom, FALSE)
          [] OTHER -> Path(UploadDir, "tmp.pdf", TRUE)]

InitApi ==
    /\ registry = RegGlobal
    /\ task_types = GlobalTypes
    /\ reg_log = <<>>
    /\ ApiIdle
    /\ StorageIdle
    /\ target_tasks = <<>>
    /\ resolved = NotCalled
    /\ config = <<>>
    /\ initial_inputs = EmptyMap
    /\ pc = NotStarted
    /\ result = NoResult
    /\ returned = "nothing"
    /\ idx = 0
    /\ available_outputs = EmptyCarrier
    /\ cur = NoTask
    /\ calls = <<>>

\* POST /execute, lines 269-322: 400 for a task that is not registered, else
\* the tracking entry and the background job
ExecuteCustomPipeline ==
    /\ job.pc = "none"
    /\ \E tasks \in RequestTasks :
          IF \E i \in DOMAIN tasks : tasks[i] \notin Range(list_tasks(task_types))
          THEN /\ api' = [api EXCEPT !.response = [op |-> "execute", code |-> 400]]
               /\ UNCHANGED <<active_pipelines, job>>
          ELSE /\ active_pipelines' =
                     [p \in (DOMAIN active_pipelines) \cup {ApiPipeline} |->
                         IF p = ApiPipeline THEN Tracking("starting", tasks)
                         ELSE active_pipelines[p]]
               /\ job' = [pc |-> "queued", tasks |-> tasks, template |-> Null]
               /\ api' = [api EXCEPT !.response = [op |-> "execute", code |-> 200]]
    /\ UNCHANGED <<registry, target_tasks, resolved, execVars, regVars, storeVars,
                   validation, flows>>

\* the tracking entry and the background job of the two template endpoints,
\* lines 162-193 and 236-266
QueueTemplateJob(entry, template_name, filename, custom_filename, settings) ==
    /\ active_pipelines' =
          [p \in (DOMAIN active_pipelines) \cup {ApiPipeline} |->
              IF p = ApiPipeline THEN entry ELSE active_pipelines[p]]
    /\ job' = [pc |-> "queued", tasks |-> <<>>,
               template |-> [template_name |-> template_name, filename |-> filename,
                             custom_filename |-> custom_filename,
                             settings |-> settings]]
    /\ api' = [api EXCEPT !.response = [op |-> "execute", code |-> 200]]

\* what a template endpoint answers without queueing a job
Refused(code) ==
    /\ api' = [api EXCEPT !.response = [op |-> "execute", code |-> code]]
    /\ UNCHANGED <<active_pipelines, job>>

\* POST /templates/{template_name}/execute, lines 196-266: 400 for settings
\* that are no JSON, 404 for an unknown template, else the tracking entry
\* and the background job
ExecuteTemplatePipeline ==
    /\ job.pc = "none"
    /\ \E template_name \in (DOMAIN get_pipeline_templates) \cup {"unknown"},
          settings \in SettingsTexts, filename \in Filenames,
          custom_filename \in CustomFilenames :
          IF ~settings.json THEN Refused(400)
          ELSE IF template_name \notin DOMAIN get_pipeline_templates THEN Refused(404)
          ELSE QueueTemplateJob(TemplateTracking("starting", template_name),
                                template_name, filename, custom_filename,
                                settings.value)
    /\ UNCHANGED <<registry, target_tasks, resolved, execVars, regVars, storeVars,
                   validation, flows>>

\* POST /templates/{template_name}/execute-with-path, lines 112-193: also
\* 400 for a file that is not there or cannot be read; the tracking entry
\* holds the settings
ExecuteTemplatePipelineWithPath ==
    /\ job.pc = "none"
    /\ \E template_name \in (DOMAIN get_pipeline_templates) \cup {"unknown"},
          settings \in SettingsTexts, filename \in Filenames,
          custom_filename \in CustomFilenames, exists \in BOOLEAN,
          read_ok \in BOOLEAN :
          IF ~settings.json THEN Refused(400)
          ELSE IF template_name \notin DOMAIN get_pipeline_templates THEN Refused(404)
          ELSE IF ~exists \/ ~read_ok THEN Refused(400)
          ELSE QueueTemplateJob(
                  [status |-> "starting", template_name |-> template_name,
                   settings |-> settings.value],
                  template_name, filename, custom_filename, settings.value)
    /\ UNCHANGED <<registry, target_tasks, resolved, execVars, regVars, storeVars,
                   validation, flows>>

\* _execute_template_pipeline_background, lines 459-513, up to the first
\* await of execute_pipeline: the tracking update, the temporary file, the
\* configuration from the template (**settings raises TypeError for settings
\* that are no mapping) and the initial inputs
TemplateJobStart ==
    /\ job.pc = "queued"
    /\ job.template # Null
    /\ IF ApiPipeline \notin DOMAIN active_pipelines
       THEN /\ job' = [job EXCEPT !.pc = JobExcept(active_pipelines, ApiPipeline).pc]
            /\ UNCHANGED <<active_pipelines, config, initial_inputs, pc>>
       ELSE \E tempfile_ok \in BOOLEAN :
               LET running == WithStatus(active_pipelines, ApiPipeline, "running")
                   e == JobExcept(running, ApiPipeline)
                   made == IF job.template.settings.type = "object"
                           THEN create_pipeline_from_template(
                                   job.template.template_name,
                                   job.template.settings.members)
                           ELSE [raised |-> TRUE, tasks |-> <<>>]
               IN IF ~tempfile_ok \/ made.raised
                  THEN /\ active_pipelines' = e.active
                       /\ job' = [job EXCEPT !.pc = e.pc]
                       /\ UNCHANGED <<config, initial_inputs, pc>>
                  ELSE /\ active_pipelines' = running
                       /\ job' = [job EXCEPT !.pc = "running"]
                       /\ config' = made.tasks
                       /\ initial_inputs' =
                             TemplateInitialInputs(job.template.filename,
                                                   job.template.custom_filename)
                       /\ pc' = "idle"
    /\ UNCHANGED <<registry, target_tasks, resolved, result, returned, idx,
                   available_outputs, cur, calls, regVars, storeVars,
                   validation, api, flows>>

\* _execute_custom_pipeline_background, lines 552-592, up to the first await
\* of execute_pipeline: the tracking update, the temporary file, the
\* configuration and the initial inputs
JobStart ==
    /\ job.pc = "queued"
    /\ job.template = Null
    /\ IF ApiPipeline \notin DOMAIN active_pipelines
       THEN /\ job' = [job EXCEPT !.pc = JobExcept(active_pipelines, ApiPipeline).pc]
            /\ UNCHANGED <<active_pipelines, config, initial_inputs, pc>>
       ELSE \E tempfile_ok \in BOOLEAN :
               IF ~tempfile_ok
               THEN LET running == WithStatus(active_pipelines, ApiPipeline, "running")
                        e == JobExcept(running, ApiPipeline)
                    IN /\ active_pipelines' = e.active
                       /\ job' = [job EXCEPT !.pc = e.pc]
                       /\ UNCHANGED <<config, initial_inputs, pc>>
               ELSE /\ active_pipelines' =
                          WithStatus(active_pipelines, ApiPipeline, "running")
                    /\ job' = [job EXCEPT !.pc = "running"]
                    /\ config' = RequestConfig(job.tasks)
                    /\ initial_inputs' = RequestInitialInputs
                    /\ pc' = "idle"
    /\ UNCHANGED <<registry, target_tasks, resolved, result, returned, idx,
                   available_outputs, cur, calls, regVars, storeVars,
                   validation, api, flows>>

\* lines 595-621 of the custom job and lines 516-542 of the template job,
\* after execute_pipeline returned: save_pipeline_result, the tracking
\* update, and the except clause for what they raise
JobSaveResult ==
    /\ job.pc = "running"
    /\ pc = "returned"
    /\ \E serializable \in BOOLEAN :
          LET s == save_pipeline_result(CurrentDisk,
                                        AsStoredResult(ApiPipeline, result, serializable),
                                        "none")
              e == JobExcept(active_pipelines, ApiPipeline)
          IN /\ records' = s.disk.records
             /\ index' = s.disk.index
             /\ IF s.outcome = "raised" \/ ApiPipeline \notin DOMAIN active_pipelines
                THEN /\ active_pipelines' = e.active
                     /\ job' = [job EXCEPT !.pc = e.pc]
                ELSE /\ active_pipelines' =
                           WithStatus(active_pipelines, ApiPipeline, result.status)
                     /\ job' = [job EXCEPT !.pc = "done"]
    /\ UNCHANGED <<registry, target_tasks, resolved, execVars, regVars, log, procs,
                   validation, api, flows>>

\* GET /status/{pipeline_id}, lines 325-370
StatusRequest ==
    /\ JobSuspended
    /\ LET stored == load_pipeline_result(CurrentDisk, ApiPipeline) IN
       api' = [api EXCEPT !.response =
                  IF ApiPipeline \in DOMAIN active_pipelines
                  THEN [op |-> "status", code |-> 200, source |-> "active",
                        status |-> active_pipelines[ApiPipeline].status]
                  ELSE IF stored.found
                  THEN [op |-> "status", code |-> 200, source |-> "stored",
                        status |-> StatusValue(stored.result.status)]
                  ELSE [op |-> "status", code |-> 404]]
    /\ UNCHANGED <<registry, target_tasks, resolved, execVars, regVars, storeVars,
                   validation, active_pipelines, job, flows>>

\* GET /list, lines 373-409, without a status filter and with the default limit
ListRequest ==
    /\ JobSuspended
    /\ api' = [api EXCEPT !.response =
                  [op |-> "list", code |-> 200,
                   active_pipelines |-> DOMAIN active_pipelines,
                   stored_pipelines |-> list_pipelines(CurrentDisk, "ANY", 20)]]
    /\ UNCHANGED <<registry, target_tasks, resolved, execVars, regVars, storeVars,
                   validation, active_pipelines, job, flows>>

\* DELETE /pipelines/{pipeline_id}, lines 412-426
DeleteRequest ==
    /\ JobSuspended
    /\ LET d == delete_pipeline(CurrentDisk, ApiPipeline, "none") IN
       /\ active_pipelines' = WithoutTracking(active_pipelines, ApiPipeline)
       /\ records' = d.disk.records
       /\ index' = d.disk.index
       /\ api' = [deleted |-> api.deleted \/ d.value,
                  response |-> [op |-> "delete",
                                code |-> IF d.value THEN 200 ELSE 404]]
    /\ UNCHANGED <<registry, target_tasks, resolved, execVars, regVars, log, procs,
                   validation, job, flows>>

NextApi ==
    \/ ExecuteCustomPipeline
    \/ ExecuteTemplatePipeline
    \/ ExecuteTemplatePipelineWithPath
    \/ JobStart
    \/ TemplateJobStart
    \/ StartPipeline
    \/ DispatchTask
    \/ SetupTask
    \/ ExecuteTask
    \/ CleanupTask
    \/ RecordTask
    \/ FinalizePipeline
    \/ SavePipelineMetadata
    \/ JobSaveResult
    \/ StatusRequest
    \/ ListRequest
    \/ DeleteRequest

SpecApi == InitApi /\ [][NextApi]_vars

(***************************************************************************)
(* Notions the properties are stated with, defined from the registry       *)
(* contents and from the recorded history, not from the algorithms.        *)
(***************************************************************************)
\* the declared dependencies of a task (none when it is not registered)
DepsOf(reg, t) == IF t \in DOMAIN reg THEN Range(reg[t].dependencies) ELSE {}

\* the least set that contains S and the dependencies of its members
RECURSIVE ClosureFrom(_, _)
ClosureFrom(reg, S) ==
    LET S2 == S \cup UNION {DepsOf(reg, t) : t \in S} IN
    IF S2 = S THEN S ELSE ClosureFrom(reg, S2)

\* the dependency closure of a requested list
Closure(reg, targets) == ClosureFrom(reg, Range(targets))

\* t depends, directly or transitively, on itself
OnCycle(reg, t) == t \in ClosureFrom(reg, DepsOf(reg, t))

FullyRegistered(reg, targets) == Closure(reg, targets) \subseteq DOMAIN reg

Cyclic(reg, targets) == \E t \in Closure(reg, targets) : OnCycle(reg, t)

Called == resolved # NotCalled

ResolutionFailed == resolved.error.kind \in {"not_registered", "circular"}

Execs == result.task_executions

SetMax(S) == CHOOSE i \in S : \A j \in S : j <= i

\* the initial inputs as a carrier map: existing paths are files, the rest data
InitialAs(m) ==
    IF m = "data"
    THEN [k \in {k \in DOMAIN initial_inputs : ~initial_inputs[k].exists} |->
             initial_inputs[k].name]
    ELSE IF m = "files"
    THEN [k \in {k \in DOMAIN initial_inputs : initial_inputs[k].exists} |->
             initial_inputs[k]]
    ELSE EmptyMap

\* the recorded executions before the n-th whose outputs hold key k in map m
Emitters(m, k, n) ==
    {i \in 1..(n - 1) : i \in DOMAIN Execs /\ Execs[i].has_outputs
                        /\ k \in DOMAIN Execs[i].outputs[m]}

\* key k of map m was emitted before the n-th execution, by a task or initially
HasAcc(m, k, n) == Emitters(m, k, n) # {} \/ k \in DOMAIN InitialAs(m)

\* the value of the latest emitter of key k in map m before the n-th execution
AccValue(m, k, n) ==
    IF Emitters(m, k, n) # {}
    THEN Execs[SetMax(Emitters(m, k, n))].outputs[m][k]
    ELSE InitialAs(m)[k]

\* the calls of one method of one task, as positions of the call log
CallsOf(t, method) ==
    {i \in DOMAIN calls : calls[i][1] = t /\ calls[i][2] = method}

HasCall(t, method, outcome) == \E i \in DOMAIN calls : calls[i] = Call(t, method, outcome)

\* some step of the task failed
Fails(t) ==
    \/ HasCall(t, "validate_inputs", "false")
    \/ HasCall(t, "setup", "raise")
    \/ HasCall(t, "execute", "raise")
    \/ HasCall(t, "execute", "save_raise")
    \/ HasCall(t, "cleanup", "raise")

\* every step of the task went well
Succeeds(t) ==
    /\ HasCall(t, "validate_inputs", "true")
    /\ HasCall(t, "setup", "ok")
    /\ HasCall(t, "execute", "ok")
    /\ HasCall(t, "cleanup", "ok")

(***************************************************************************)
(* C1, C2: resolve_dependencies (specification SpecResolve)                *)
(***************************************************************************)
\* C1: when the dependency closure of the requested ids is acyclic and fully
\* registered, resolve_dependencies returns a list that holds every task of
\* the closure exactly once, nothing else, each after all of its declared
\* dependencies (repeated ids and diamonds included).
C1_TopologicalOrder ==
    (/\ Called
     /\ FullyRegistered(registry, target_tasks)
     /\ ~Cyclic(registry, target_tasks))
    => /\ resolved.error = NoError
       /\ NoDup(resolved.order)
       /\ Range(resolved.order) = Closure(registry, target_tasks)
       /\ \A i \in DOMAIN resolved.order :
             \A d \in DepsOf(registry, resolved.order[i]) :
                \E j \in 1..(i - 1) : resolved.order[j] = d

\* a diamond D -> {B, C} -> A requested with a repeated id, resolved
C1_Witness ==
    /\ target_tasks = <<"D", "D">>
    /\ DOMAIN registry = Tasks
    /\ registry["D"].dependencies = <<"B", "C">>
    /\ registry["B"].dependencies = <<"A">>
    /\ registry["C"].dependencies = <<"A">>
    /\ registry["A"].dependencies = <<>>
    /\ resolved.error = NoError
    /\ Len(resolved.order) = 4

\* C2: with all ids registered, resolve_dependencies fails with the circular
\* dependency error exactly when the closure of the requested ids holds a
\* cycle (a self-dependency included); the error names a task of a cycle, and
\* for X(deps=[Y]), Y(deps=[X]) and request [X] it names {X, Y}.
C2_CircularIffCycle ==
    (Called /\ FullyRegistered(registry, target_tasks))
    => /\ (resolved.error.kind = "circular") <=> Cyclic(registry, target_tasks)
       /\ resolved.error.kind = "circular"
             => \E t \in resolved.error.remaining : OnCycle(registry, t)
       /\ (/\ {"A", "B"} \subseteq DOMAIN registry
           /\ registry["A"].dependencies = <<"B">>
           /\ registry["B"].dependencies = <<"A">>
           /\ target_tasks = <<"A">>)
          => resolved.error = CircularDependency({"A", "B"})

\* the X <-> Y scenario, with the error raised
C2_Witness ==
    /\ {"A", "B"} \subseteq DOMAIN registry
    /\ registry["A"].dependencies = <<"B">>
    /\ registry["B"].dependencies = <<"A">>
    /\ target_tasks = <<"A">>
    /\ resolved.error.kind = "circular"

(***************************************************************************)
(* C3 .. C10: execute_pipeline (specification Spec)                        *)
(***************************************************************************)
Returned == pc = "returned"

\* the order was resolved and the loop over it was entered
Resolved == Called /\ resolved.error = NoError

\* C3: if every task of the resolved order succeeds, execute_pipeline returns
\* status Completed and task_executions holds one Completed entry per
\* resolved task_id, in resolution order.
C3_AllSucceedGivesCompleted ==
    (/\ Returned
     /\ Resolved
     /\ resolved.order # <<>>
     /\ \A t \in Range(resolved.order) : Succeeds(t))
    => /\ result.status = "completed"
       /\ Len(Execs) = Len(resolved.order)
       /\ \A i \in DOMAIN Execs :
             Execs[i].task_id = resolved.order[i] /\ Execs[i].status = "completed"

\* C4: if the N-th task of the resolved order fails, the returned result is
\* Failed and task_executions has exactly N entries: 1..N-1 Completed with
\* their outputs, the N-th Failed, none after it.
C4_FailureStopsAtN ==
    (Returned /\ Resolved)
    => \A n \in DOMAIN resolved.order :
          Fails(resolved.order[n])
          => /\ result.status = "failed"
             /\ Len(Execs) = n
             /\ Execs[n].task_id = resolved.order[n]
             /\ Execs[n].status = "failed"
             /\ \A i \in 1..(n - 1) :
                   /\ Execs[i].task_id = resolved.order[i]
                   /\ Execs[i].status = "completed"
                   /\ Execs[i].has_outputs
                   /\ Execs[i].outputs \in
                         {save_task_outputs(Execs[i].task_id, o) :
                             o \in OutputChoices(Execs[i].task_id)}

\* the third task of the order failed after two completed ones
C4_Witness ==
    /\ Returned
    /\ Resolved
    /\ Len(resolved.order) = 3
    /\ Fails(resolved.order[3])
    /\ Len(Execs) = 3
    /\ Execs[1].status = "completed"
    /\ Execs[2].status = "completed"
    /\ Execs[3].status = "failed"

CarrierMaps == {"data", "files", "metadata"}

\* the keys the recorded executions emitted in map m
EmittedKeys(m) == UNION {DOMAIN Execs[i].outputs[m] : i \in DOMAIN Execs}

\* C5 as stated: when a pipeline completes, the keys of each map of
\* final_outputs are the union of the output keys of the executed tasks, a
\* key emitted by several tasks holding the value of the latest of them.
C5_FinalOutputsAreTaskOutputs ==
    (Returned /\ result.status = "completed")
    => \A m \in CarrierMaps :
          /\ DOMAIN result.final_outputs[m] = EmittedKeys(m)
          /\ \A k \in EmittedKeys(m) :
                /\ k \in DOMAIN result.final_outputs[m]
                /\ result.final_outputs[m][k]
                      = Execs[SetMax(Emitters(m, k, Len(Execs) + 1))].outputs[m][k]

\* C5 amended: when a pipeline completes, the keys of each map of
\* final_outputs are the keys of the initial inputs (existing paths in files,
\* other values in data) together with the output keys of the executed
\* tasks; a key holds the value recorded for the task that emitted it latest,
\* and the initial value when no task emitted it.
C5_FinalOutputsAreInitialAndTaskOutputs ==
    (Returned /\ result.status = "completed")
    => /\ result.has_final
       /\ \A m \in CarrierMaps :
             /\ DOMAIN result.final_outputs[m]
                   = EmittedKeys(m) \cup DOMAIN InitialAs(m)
             /\ \A k \in DOMAIN result.final_outputs[m] :
                   result.final_outputs[m][k] = AccValue(m, k, Len(Execs) + 1)

\* a completed pipeline with initial inputs in which two tasks emitted the
\* same data key and the later value is the final one
C5_Witness ==
    /\ Returned
    /\ result.status = "completed"
    /\ initial_inputs # EmptyMap
    /\ Len(Execs) >= 2
    /\ "foo" \in DOMAIN Execs[1].outputs.data
    /\ "foo" \in DOMAIN Execs[2].outputs.data
    /\ Execs[1].outputs.data["foo"] # Execs[2].outputs.data["foo"]
    /\ result.final_outputs.data["foo"] = Execs[2].outputs.data["foo"]

\* the position of a task in the recorded executions
Position(t) == CHOOSE i \in DOMAIN Execs : Execs[i].task_id = t

\* the executions whose inputs were built (the task was registered)
Built == {i \in DOMAIN Execs : Execs[i].error_message.kind # "not_registered"}

\* the latest emitter of key x, in data or in files, before the n-th
\* execution: a position, or 0 for the initial inputs, or -1 when there is none
LatestProducer(x, n) ==
    LET E == Emitters("data", x, n) \cup Emitters("files", x, n) IN
    IF E # {} THEN SetMax(E)
    ELSE IF x \in DOMAIN initial_inputs THEN 0 ELSE -1

ProducedData(x, p) ==
    IF p = 0 THEN x \in DOMAIN InitialAs("data")
    ELSE x \in DOMAIN Execs[p].outputs.data

ProducedValue(m, x, p) == IF p = 0 THEN InitialAs(m)[x] ELSE Execs[p].outputs[m][x]

\* the "$x" references of the TaskConfig of a task, as keys
RefKeys(t) ==
    {k \in DOMAIN FindTaskConfig(config, t).inputs :
        FindTaskConfig(config, t).inputs[k].dollar}

RefTarget(t, k) == FindTaskConfig(config, t).inputs[k].rest

KindsOf(t) == Range(registry[t].input_types)

\* C6 as stated: a configured input k = "$x" (k not overridden as a declared
\* input kind) is the value the most recently executed producer of x placed
\* in data or files, also when an earlier producer placed x in the other map;
\* without a producer the input is omitted; the task is dispatched.
C6_RefIsLatestProducerValue ==
    \A n \in Built :
       LET t == Execs[n].task_id IN
       \A k \in RefKeys(t) \ KindsOf(t) :
          LET x == RefTarget(t, k)
              p == LatestProducer(x, n)
          IN /\ p >= 0 /\ ProducedData(x, p)
                => /\ k \in DOMAIN Execs[n].inputs.data
                   /\ Execs[n].inputs.data[k] = ProducedValue("data", x, p)
             /\ p >= 0 /\ ~ProducedData(x, p)
                => /\ k \in DOMAIN Execs[n].inputs.files
                   /\ Execs[n].inputs.files[k] = ProducedValue("files", x, p)
                   /\ k \notin DOMAIN Execs[n].inputs.data
             /\ p < 0
                => /\ k \notin DOMAIN Execs[n].inputs.files
                   /\ k \notin DOMAIN Execs[n].inputs.data
             /\ CallsOf(t, "validate_inputs") # {}

\* C6 amended: a configured input k = "$x" is resolved against the accumulated
\* outputs, data first: if x is in the accumulated data (put there by the
\* initial inputs or a producer, the latest of them counting) the data input
\* k is that value, even when a later producer placed x in files; otherwise,
\* if x is in the accumulated files, the files input k is that path;
\* otherwise the reference sets no input.  A declared input kind k that is
\* in the accumulated data (files) overrides the data (files) input k, and
\* an accumulated data value of k fills a data input k left unset.  The task
\* is dispatched in every case.
C6_RefIsAccumulatedDataFirst ==
    \A n \in Built :
       LET t == Execs[n].task_id
           inputs == Execs[n].inputs
       IN \A k \in RefKeys(t) :
          LET x == RefTarget(t, k)
              kindData  == k \in KindsOf(t) /\ HasAcc("data", k, n)
              kindFiles == k \in KindsOf(t) /\ HasAcc("files", k, n)
              refData   == HasAcc("data", x, n)
              refFiles  == ~refData /\ HasAcc("files", x, n)
          IN /\ k \in DOMAIN inputs.data
                   <=> (kindData \/ refData \/ HasAcc("data", k, n))
             /\ k \in DOMAIN inputs.data
                   => inputs.data[k] =
                         IF kindData THEN AccValue("data", k, n)
                         ELSE IF refData THEN AccValue("data", x, n)
                         ELSE AccValue("data", k, n)
             /\ k \in DOMAIN inputs.files <=> (kindFiles \/ refFiles)
             /\ k \in DOMAIN inputs.files
                   => inputs.files[k] =
                         IF kindFiles THEN AccValue("files", k, n)
                         ELSE AccValue("files", x, n)
             /\ CallsOf(t, "validate_inputs") # {}

\* a task was given data input k from "$x" although the latest producer of x
\* had placed x in files
C6_Witness ==
    \E n \in Built :
       /\ "k" \in RefKeys(Execs[n].task_id)
       /\ LatestProducer("x", n) >= 1
       /\ ~ProducedData("x", LatestProducer("x", n))
       /\ HasAcc("data", "x", n)
       /\ "k" \in DOMAIN Execs[n].inputs.data
       /\ Execs[n].inputs.data["k"] = AccValue("data", "x", n)

\* C7: with A (no dependencies) and B (depends on A, declares input kind foo,
\* no inputs configured), A emitting data[foo] = bar: B's inputs hold
\* foo = bar, and when B completes without emitting foo itself,
\* final_outputs.data[foo] = bar.
C7_KindMatchingScenario ==
    (/\ Resolved
     /\ resolved.order = <<"A", "B">>
     /\ registry["B"].dependencies = <<"A">>
     /\ "foo" \in KindsOf("B")
     /\ FindTaskConfig(config, "B").inputs = EmptyMap
     /\ Len(Execs) >= 1
     /\ Execs[1].task_id = "A"
     /\ Execs[1].status = "completed"
     /\ "foo" \in DOMAIN Execs[1].outputs.data
     /\ Execs[1].outputs.data["foo"] = "bar")
    => /\ (pc \in {"setup", "execute", "cleanup", "record"} /\ cur.task_id = "B")
          => /\ "foo" \in DOMAIN cur.inputs.data
             /\ cur.inputs.data["foo"] = "bar"
       /\ Len(Execs) >= 2
          => /\ Execs[2].task_id = "B"
             /\ "foo" \in DOMAIN Execs[2].inputs.data
             /\ Execs[2].inputs.data["foo"] = "bar"
       /\ (/\ Returned
           /\ Len(Execs) = 2
           /\ Execs[2].status = "completed"
           /\ "foo" \notin DOMAIN Execs[2].outputs.data)
          => /\ result.has_final
             /\ "foo" \in DOMAIN result.final_outputs.data
             /\ result.final_outputs.data["foo"] = "bar"

\* the scenario ran to the end
C7_Witness ==
    /\ Returned
    /\ resolved.order = <<"A", "B">>
    /\ FindTaskConfig(config, "B").inputs = EmptyMap
    /\ Len(Execs) = 2
    /\ Execs[1].status = "completed"
    /\ "foo" \in DOMAIN Execs[1].outputs.data
    /\ Execs[2].status = "completed"
    /\ "foo" \notin DOMAIN Execs[2].outputs.data
    /\ Execs[2].inputs.data["foo"] = "bar"
    /\ result.status = "completed"
    /\ result.final_outputs.data["foo"] = "bar"

\* C8: for every task whose execute() is invoked, cleanup() is invoked
\* exactly once afterwards, whether execute returned or raised or saving its
\* file outputs raised, and before any other task method is called.
C8_CleanupFollowsExecute ==
    \A t \in Tasks :
       \A i \in CallsOf(t, "execute") :
          IF pc = "cleanup" /\ cur.task_id = t /\ i = Len(calls)
          THEN CallsOf(t, "cleanup") = {}
          ELSE CallsOf(t, "cleanup") = {i + 1}

\* a second task was dispatched after the first one's execute and cleanup,
\* and the pipeline ended on a task whose file outputs could not be saved
C8_Witness ==
    /\ Returned
    /\ \E i \in DOMAIN calls :
          /\ calls[i][2] = "execute"
          /\ calls[i][3] = "save_raise"
          /\ i + 1 \in DOMAIN calls
          /\ calls[i + 1] = Call(calls[i][1], "cleanup", "ok")
    /\ \E i \in DOMAIN calls :
          /\ calls[i][2] = "cleanup"
          /\ i + 1 \in DOMAIN calls
          /\ calls[i + 1][2] = "validate_inputs"

\* C9: a failure of cleanup() never changes the task's outcome: a task whose
\* execute() succeeded (its outputs saved) is recorded Completed, and a task
\* whose execute() failed keeps its own error message.
C9_CleanupNeverChangesOutcome ==
    \A n \in DOMAIN Execs :
       LET t == Execs[n].task_id IN
       /\ HasCall(t, "execute", "ok")
          => /\ Execs[n].status = "completed"
             /\ Returned /\ Resolved /\ n < Len(resolved.order)
                   => CallsOf(resolved.order[n + 1], "validate_inputs") # {}
       /\ HasCall(t, "execute", "raise") => Execs[n].error_message = ExecuteError

\* C10 as stated: when dependency resolution fails, execute_pipeline aborts
\* with an error to the caller and no PipelineResult is created or returned.
C10_ResolutionFailureRaises ==
    (Returned /\ ResolutionFailed)
    => returned = "error" /\ ~result.created

\* C10 amended: when dependency resolution fails (a configured or
\* transitively required task_id is not registered, or the closure is
\* circular), execute_pipeline raises nothing: it returns a PipelineResult
\* with status Failed whose error message is the resolution error, with no
\* task executions and no final outputs, and no task method is called.
C10_ResolutionFailureReturnsFailed ==
    /\ (Called /\ (~FullyRegistered(registry, target_tasks)
                   \/ Cyclic(registry, target_tasks)))
       => ResolutionFailed
    /\ ResolutionFailed
       => /\ pc = "returned"
          /\ returned = "result"
          /\ result.created
          /\ result.status = "failed"
          /\ result.error_message = resolved.error
          /\ result.task_executions = <<>>
          /\ ~result.has_final
          /\ calls = <<>>

\* C requested, whose dependency B depends on the unregistered D
C10_Witness ==
    /\ Returned
    /\ TaskIds(config) = <<"C">>
    /\ resolved.error = NotRegistered("D")
    /\ result.status = "failed"

(***************************************************************************)
(* C11 .. C13: execute_pipeline (specification Spec)                       *)
(***************************************************************************)
\* C11: within one pipeline execution, once a task has failed no later task
\* of the resolved order is dispatched (none of its methods is called), and
\* no task's execute() is invoked more than once, also when the
\* PipelineConfig lists the same task_id several times.
C11_FailureStopsDispatch ==
    /\ \A t \in Tasks : Cardinality(CallsOf(t, "execute")) <= 1
    /\ Resolved
       => \A n \in DOMAIN resolved.order :
             Fails(resolved.order[n])
             => \A m \in DOMAIN resolved.order :
                   m > n => \A i \in DOMAIN calls : calls[i][1] # resolved.order[m]

\* C was configured twice; its dependency A was executed once and raised,
\* and neither B nor C was dispatched
C11_Witness ==
    /\ Returned
    /\ TaskIds(config) = <<"C", "C">>
    /\ resolved.order = <<"A", "B", "C">>
    /\ Cardinality(CallsOf("A", "execute")) = 1
    /\ HasCall("A", "execute", "raise")
    /\ \A i \in DOMAIN calls : calls[i][1] = "A"
    /\ Len(Execs) = 1

\* C12: the status of a PipelineResult only moves from Running to Completed
\* or from Running to Failed: a Completed status is never changed again (a
\* failure to persist the execution record at the end of the run does not
\* change it), and neither is a Failed one.  Stated for the runs that
\* executed at least one task.
C12_StatusMovesOnce ==
    [][Len(Execs) >= 1
       => /\ result.status = "completed" => result'.status = "completed"
          /\ result.status = "failed" => result'.status = "failed"
          /\ result.status = "running"
                => result'.status \in {"running", "completed", "failed"}]_vars

\* C13: every PipelineResult returned by execute_pipeline has a terminal
\* status, its error_message is set exactly when the status is Failed, and
\* when a task failed the message is the one naming that task_id.
C13_ErrorMessageIffFailed ==
    Returned
    => /\ result.status \in {"completed", "failed"}
       /\ (result.error_message # NoError) <=> (result.status = "failed")
       /\ \A t \in Tasks :
             (Resolved /\ Fails(t))
             => /\ result.error_message.kind = "task_failed"
                /\ result.error_message.task = t

(***************************************************************************)
(* C14: determinism of resolve_dependencies (specification SpecResolve)    *)
(***************************************************************************)
\* C14: resolve_dependencies is deterministic: for the same registry and the
\* same requested list every call, in every process, gives the result this
\* call gave.
C14_ResolveIsDeterministic ==
    Called => \A r \in resolve_dependencies(registry, target_tasks) : r = resolved

(***************************************************************************)
(* C15: re-registration (specification SpecRegister)                       *)
(***************************************************************************)
RegisteredIds == {reg_log[i].task_id : i \in DOMAIN reg_log}

\* the class registered last under an id
LastRegistered(task_id) ==
    reg_log[SetMax({i \in DOMAIN reg_log : reg_log[i].task_id = task_id})]

\* C15: registering a class whose task_id is already registered leaves the
\* registry usable: get_task and get_task_metadata give the class and the
\* metadata registered last under each id, resolve_dependencies works on
\* those metadata, list_tasks holds each registered id once, and the other
\* ids keep what was registered for them.
C15_LastRegistrationWins ==
    /\ \A t \in RegisteredIds :
          /\ get_task(task_types, t) = [error |-> NoError, cls |-> LastRegistered(t).name]
          /\ get_task_metadata(registry, t)
                = [error |-> NoError, has |-> TRUE,
                   metadata |-> LastRegistered(t).metadata]
          /\ Count(list_tasks(task_types), t) = 1
    /\ Range(list_tasks(task_types)) = RegisteredIds
    /\ \A t \in Tasks \ RegisteredIds :
          /\ get_task(task_types, t).error = NotRegistered(t)
          /\ get_task_metadata(registry, t).error = NotRegistered(t)
    /\ Called
       => resolved \in resolve_dependencies(
                          [t \in RegisteredIds |-> LastRegistered(t).metadata],
                          target_tasks)

\* A was registered without dependencies and then again depending on B; the
\* order resolved for A afterwards puts B first
C15_Witness ==
    /\ Len(reg_log) = 3
    /\ reg_log[1].name = "B1"
    /\ reg_log[2].name = "A1"
    /\ reg_log[3].name = "A2"
    /\ list_tasks(task_types) = <<"B", "A">>
    /\ target_tasks = <<"A">>
    /\ resolved = [order |-> <<"B", "A">>, error |-> NoError]

(***************************************************************************)
(* C16 .. C19: PipelineStorage (specifications SpecStorage and             *)
(* SpecStorageFaults).  What is stored is read off the log of operations.  *)
(***************************************************************************)
\* the files before the i-th logged operation
DiskBefore(i) == IF i = 1 THEN Disk(EmptyMap, NoIndex) ELSE log[i - 1].disk

\* the saves that returned and the deletes that returned true, of pipeline p,
\* before the i-th logged operation
WritesBefore(p, i) ==
    {j \in 1..(i - 1) :
        /\ log[j].pipeline_id = p
        /\ \/ log[j].op = "save" /\ log[j].value = "returned"
           \/ log[j].op = "delete" /\ log[j].value = TRUE}

\* every call of save or delete of pipeline p before the i-th operation
CallsBefore(p, i) ==
    {j \in 1..(i - 1) : log[j].pipeline_id = p /\ log[j].op \in {"save", "delete"}}

\* p is stored before the i-th operation: its last write is a save
StoredBefore(p, i) ==
    /\ WritesBefore(p, i) # {}
    /\ log[SetMax(WritesBefore(p, i))].op = "save"

\* the result stored for p before the i-th operation
SavedBefore(p, i) == log[SetMax(WritesBefore(p, i))].arg

\* datetime < datetime
TimeBefore(a, b) == a.sec < b.sec \/ (a.sec = b.sec /\ a.micro < b.micro)

\* the loaded result agrees with the saved one
SameAsSaved(loaded, r) ==
    /\ loaded.found
    /\ loaded.result.pipeline_id = r.pipeline_id
    /\ loaded.result.status = r.status
    /\ loaded.result.start_time = r.start_time
    /\ loaded.result.end_time = r.end_time
    /\ loaded.result.error_message = r.error_message
    /\ Len(loaded.result.task_executions) = Len(r.task_executions)
    /\ \A k \in DOMAIN r.task_executions :
          /\ loaded.result.task_executions[k].task_id = r.task_executions[k].task_id
          /\ loaded.result.task_executions[k].status = r.task_executions[k].status
          /\ loaded.result.task_executions[k].start_time
                = r.task_executions[k].start_time
          /\ loaded.result.task_executions[k].end_time = r.task_executions[k].end_time

\* C16: a load of a pipeline_id whose last save or delete call was a save
\* that returned gives a result with the pipeline_id, status, start and end
\* time and error message of the saved one, and its task executions in the
\* same order with their statuses and times; the save that counts is the
\* last one of that pipeline_id.
C16_SaveLoadRoundTrip ==
    \A i \in DOMAIN log :
       (/\ log[i].op = "load"
        /\ CallsBefore(log[i].pipeline_id, i) # {}
        /\ log[SetMax(CallsBefore(log[i].pipeline_id, i))].op = "save"
        /\ log[SetMax(CallsBefore(log[i].pipeline_id, i))].value = "returned")
       => SameAsSaved(log[i].value,
                      log[SetMax(CallsBefore(log[i].pipeline_id, i))].arg)

\* p1 was saved failed, saved again running with microseconds in its start
\* time and no end time, and loaded
C16_Witness ==
    /\ Len(log) = 3
    /\ log[1].op = "save" /\ log[1].value = "returned" /\ log[1].pipeline_id = "p1"
    /\ log[1].arg.status = "FAILED"
    /\ log[2].op = "save" /\ log[2].value = "returned" /\ log[2].pipeline_id = "p1"
    /\ log[2].arg.status = "RUNNING"
    /\ log[3].op = "load" /\ log[3].pipeline_id = "p1"
    /\ log[3].value.found
    /\ log[3].value.result.status = "RUNNING"
    /\ log[3].value.result.start_time = Time(1, 5)
    /\ log[3].value.result.end_time = NoneTime

\* C17: list_pipelines(status=FAILED) without a limit returns exactly the
\* stored pipelines whose saved status is Failed, each once, none with
\* another status and none that was deleted, and none of them before one
\* whose saved start_time is later.
C17_ListFailedNewestFirst ==
    \A i \in DOMAIN log :
       (log[i].op = "list" /\ log[i].arg = <<"FAILED", 0>>)
       => LET v == log[i].value IN
          /\ {v[k].pipeline_id : k \in DOMAIN v}
                = {p \in PipelineIds :
                      StoredBefore(p, i) /\ SavedBefore(p, i).status = "FAILED"}
          /\ \A k \in DOMAIN v : v[k].status = "failed"
          /\ \A j, k \in DOMAIN v :
                j < k
                => /\ v[j].pipeline_id # v[k].pipeline_id
                   /\ ~TimeBefore(SavedBefore(v[j].pipeline_id, i).start_time,
                                  SavedBefore(v[k].pipeline_id, i).start_time)

\* two failed pipelines were saved, the older first, and listed
C17_Witness ==
    /\ Len(log) = 3
    /\ log[1].op = "save" /\ log[1].value = "returned"
    /\ log[1].arg.status = "FAILED" /\ log[1].arg.start_time = Time(1, 0)
    /\ log[2].op = "save" /\ log[2].value = "returned"
    /\ log[2].arg.status = "FAILED" /\ log[2].arg.start_time = Time(1, 5)
    /\ log[1].pipeline_id # log[2].pipeline_id
    /\ log[3].op = "list" /\ log[3].arg = <<"FAILED", 0>>
    /\ Len(log[3].value) = 2
    /\ log[3].value[1].pipeline_id = log[2].pipeline_id
    /\ log[3].value[2].pipeline_id = log[1].pipeline_id

\* C18: delete_pipeline of a pipeline_id that has no directory returns false
\* and changes neither the records nor the index; of a stored pipeline it
\* returns true, after which load finds nothing, list does not hold the id,
\* the other pipelines' records and index entries are as before, and a
\* second delete returns false.
C18_DeleteIdempotent ==
    \A i \in DOMAIN log :
       log[i].op = "delete"
       => LET p == log[i].pipeline_id
              before == DiskBefore(i)
              after == log[i].disk
          IN /\ p \notin DOMAIN before.records
                => log[i].value = FALSE /\ after = before
             /\ (p \in DOMAIN before.records /\ before.records[p].kind = "json")
                => /\ log[i].value = TRUE
                   /\ ~load_pipeline_result(after, p).found
                   /\ \A k \in DOMAIN list_pipelines(after, "ANY", 0) :
                         list_pipelines(after, "ANY", 0)[k].pipeline_id # p
                   /\ \A k \in DOMAIN after.index.entries :
                         after.index.entries[k].pipeline_id # p
                   /\ (DOMAIN after.records) = (DOMAIN before.records) \ {p}
                   /\ \A q \in DOMAIN after.records :
                         after.records[q] = before.records[q]
                   /\ after.index.entries = WithoutEntry(before.index.entries, p)
                   /\ delete_pipeline(after, p, "none").value = FALSE

\* two pipelines were saved and the first of them deleted
C18_Witness ==
    /\ Len(log) = 3
    /\ log[1].op = "save" /\ log[1].value = "returned" /\ log[1].pipeline_id = "p1"
    /\ log[2].op = "save" /\ log[2].value = "returned" /\ log[2].pipeline_id = "p2"
    /\ log[3].op = "delete" /\ log[3].pipeline_id = "p1" /\ log[3].value = TRUE
    /\ DOMAIN records = {"p2"}
    /\ Len(index.entries) = 1

\* every entry of the index has a full record that agrees with it, and no
\* pipeline_id has two entries
IndexIsProjection(disk) ==
    /\ \A k \in DOMAIN disk.index.entries :
          LET e == disk.index.entries[k] IN
          /\ e.pipeline_id \in DOMAIN disk.records
          /\ disk.records[e.pipeline_id].kind = "json"
          /\ disk.records[e.pipeline_id].data.status = e.status
          /\ disk.records[e.pipeline_id].data.start_time = e.start_time
          /\ disk.records[e.pipeline_id].data.end_time = e.end_time
    /\ \A j, k \in DOMAIN disk.index.entries :
          j # k => disk.index.entries[j].pipeline_id # disk.index.entries[k].pipeline_id

\* C19: after every save or delete operation that has ended, also one that
\* met a failure, the index is a projection of the existing full records.
C19_IndexIsProjectionOfRecords ==
    \A i \in DOMAIN log :
       log[i].op \in {"save", "delete"} => IndexIsProjection(log[i].disk)

(***************************************************************************)
(* C20: concurrent saves (specification SpecStorageConcurrent)             *)
(***************************************************************************)
\* C20: when the save calls of two different pipeline_ids have both
\* returned, the index holds an entry for each of the two pipelines.
C20_ConcurrentSavesKeepBoth ==
    (/\ DOMAIN procs = Writers
     /\ \A w \in Writers : procs[w].pc = "returned")
    => \A w \in Writers :
          \E k \in DOMAIN index.entries :
             index.entries[k].pipeline_id = procs[w].result.pipeline_id

(***************************************************************************)
(* C21, C23, C24, C26 .. C28: execute_pipeline (specification Spec)        *)
(***************************************************************************)
\* the outputs accumulated before the n-th execution, from the history: the
\* initial inputs and the outputs of the executions recorded before it
MergedBefore(n) ==
    [m \in CarrierMaps |->
        [k \in {k \in EmittedKeys(m) \cup DOMAIN InitialAs(m) : HasAcc(m, k, n)} |->
            AccValue(m, k, n)]]

\* the place of a task in the resolved order
OrderPosition(t) == CHOOSE i \in DOMAIN resolved.order : resolved.order[i] = t

\* a task is in flight: dispatched and not yet handed back to the loop
InFlight == pc \in {"setup", "execute", "cleanup"}

\* C21: within one pipeline execution at most one task is in flight: the
\* method calls of the tasks follow the resolved order without interleaving,
\* and while a task is in flight every task before it in the resolved order
\* is finalized (its cleanup done when it was executed, its TaskExecution
\* recorded, its outputs merged), the available outputs are the merge of
\* the initial inputs and all earlier outputs, and the task's inputs were
\* built from them.
C21_OneTaskInFlight ==
    Resolved
    => /\ \A i, j \in DOMAIN calls :
             i < j => OrderPosition(calls[i][1]) <= OrderPosition(calls[j][1])
       /\ InFlight
          => /\ cur.task_id = resolved.order[idx]
             /\ Len(Execs) = idx - 1
             /\ \A i \in 1..(idx - 1) :
                   /\ Execs[i].task_id = resolved.order[i]
                   /\ Execs[i].ended
                   /\ Execs[i].status = "completed"
                   /\ CallsOf(Execs[i].task_id, "cleanup") # {}
             /\ \A m \in CarrierMaps : available_outputs[m] = MergedBefore(idx)[m]
             /\ cur.inputs =
                   prepare_task_inputs(FindTaskConfig(config, cur.task_id).inputs,
                                       registry[cur.task_id].input_types,
                                       [data |-> MergedBefore(idx)["data"],
                                        files |-> MergedBefore(idx)["files"],
                                        metadata |-> MergedBefore(idx)["metadata"]])

\* B is in flight after A was finalized, and sees the foo that A emitted
C21_Witness ==
    /\ pc = "execute"
    /\ idx = 2
    /\ cur.task_id = "B"
    /\ Len(Execs) = 1
    /\ Execs[1].task_id = "A"
    /\ "foo" \in DOMAIN Execs[1].outputs.data
    /\ HasCall("A", "cleanup", "ok")
    /\ cur.inputs.data["foo"] = "bar"

\* C23: every TaskExecution recorded in a returned PipelineResult is terminal
\* (Completed or Failed) with an end time, is the only one of its task_id,
\* carries outputs exactly when it is Completed and an error message exactly
\* when it is Failed.
C23_ExecutionsAreTerminal ==
    Returned
    => \A n \in DOMAIN Execs :
          /\ Execs[n].status \in {"completed", "failed"}
          /\ Execs[n].ended
          /\ \A k \in DOMAIN Execs : k # n => Execs[k].task_id # Execs[n].task_id
          /\ Execs[n].has_outputs <=> (Execs[n].status = "completed")
          /\ (Execs[n].error_message # NoError) <=> (Execs[n].status = "failed")

\* C24: if validate_inputs of a task returns false for its built inputs, the
\* task's setup(), execute() and cleanup() are never invoked, the task is
\* recorded as a Failed TaskExecution, and the returned pipeline is Failed
\* with the message naming that task.
C24_InvalidInputsAbortPipeline ==
    \A t \in Tasks :
       HasCall(t, "validate_inputs", "false")
       => /\ CallsOf(t, "setup") = {}
          /\ CallsOf(t, "execute") = {}
          /\ CallsOf(t, "cleanup") = {}
          /\ Returned
             => /\ result.status = "failed"
                /\ result.error_message = TaskFailed(t, InvalidInputs(t))
                /\ \E n \in DOMAIN Execs :
                      /\ Execs[n].task_id = t
                      /\ Execs[n].status = "failed"
                      /\ Execs[n].error_message = InvalidInputs(t)

\* the executions whose task uses BaseTask.validate_inputs
DefaultValidated ==
    {n \in Built : registry[Execs[n].task_id].validates = "default"}

\* the task's inputs hold one of its declared input kinds, in data or in files
HoldsDeclaredKind(n) ==
    \E k \in KindsOf(Execs[n].task_id) :
       k \in DOMAIN Execs[n].inputs.data \/ k \in DOMAIN Execs[n].inputs.files

\* C26: the default validate_inputs returns true or false, never raises, and
\* it returns false exactly when none of the task's declared input kinds is
\* a key of inputs.data or inputs.files; so a task without declared input
\* kinds is rejected whatever its inputs hold, and a returned pipeline whose
\* configuration lists such a registered task is Failed.
C26_DefaultValidation ==
    /\ \A n \in DefaultValidated :
          LET t == Execs[n].task_id IN
          /\ HasCall(t, "validate_inputs", "true") \/ HasCall(t, "validate_inputs", "false")
          /\ HasCall(t, "validate_inputs", "false") <=> ~HoldsDeclaredKind(n)
          /\ HasCall(t, "validate_inputs", "false")
                <=> Execs[n].error_message = InvalidInputs(t)
          /\ KindsOf(t) = {} => Execs[n].error_message = InvalidInputs(t)
    /\ Returned
       => \A t \in Range(TaskIds(config)) \cap DOMAIN registry :
             (registry[t].validates = "default" /\ KindsOf(t) = {})
             => result.status = "failed"

\* D, which declares no input kinds, was given non-empty inputs and rejected
C26_Witness ==
    /\ Returned
    /\ TaskIds(config) = <<"A", "D">>
    /\ Len(Execs) = 2
    /\ Execs[1].status = "completed"
    /\ Execs[2].task_id = "D"
    /\ Execs[2].inputs.data # EmptyMap
    /\ Execs[2].error_message = InvalidInputs("D")
    /\ result.status = "failed"

\* the inputs configured for a task: those of the first TaskConfig with its
\* id, none when the task is only there as a dependency
ConfiguredFor(t) ==
    IF \A i \in DOMAIN config : config[i].task_id # t THEN EmptyMap
    ELSE config[CHOOSE i \in DOMAIN config :
                   /\ config[i].task_id = t
                   /\ \A j \in 1..(i - 1) : config[j].task_id # t].inputs

\* every key that can occur in a carrier or a configuration
InputKeys ==
    UNION {EmittedKeys(m) \cup DOMAIN InitialAs(m) : m \in CarrierMaps}
    \cup UNION {DOMAIN config[i].inputs : i \in DOMAIN config}
    \cup UNION {DOMAIN Execs[n].inputs.data : n \in DOMAIN Execs}

\* the data input k the statement gives to the n-th execution: <<v>> for the
\* value v, <<>> for none
ExpectedData(n, k) ==
    LET t == Execs[n].task_id
        c == ConfiguredFor(t)
    IN IF k \in KindsOf(t) /\ HasAcc("data", k, n) THEN <<AccValue("data", k, n)>>
       ELSE IF k \in DOMAIN c /\ ~c[k].dollar THEN <<c[k].rest>>
       ELSE IF k \in DOMAIN c /\ c[k].dollar /\ HasAcc("data", c[k].rest, n)
       THEN <<AccValue("data", c[k].rest, n)>>
       ELSE IF HasAcc("data", k, n) THEN <<AccValue("data", k, n)>>
       ELSE <<>>

\* C27: the data inputs built for a task hold, for every key k: the
\* accumulated data value of k when k is a declared input kind present in
\* the accumulated data (also when a value is configured for k); otherwise
\* the configured value of k (a literal, or the "$ref" resolved in the
\* accumulated data) when one was set; otherwise the accumulated data value
\* of k when present; and nothing else.  A task that is only a dependency
\* is built from an empty configuration.
C27_DataInputsPrecedence ==
    \A n \in Built :
       \A k \in InputKeys :
          /\ k \in DOMAIN Execs[n].inputs.data <=> ExpectedData(n, k) # <<>>
          /\ k \in DOMAIN Execs[n].inputs.data
                => Execs[n].inputs.data[k] = ExpectedData(n, k)[1]

\* B is configured with pdf = "lit", foo = "$x" and k = "$x"; its dependency A
\* has no TaskConfig and gets the initial data only, where its declared kind
\* pdf is found; B keeps the configured pdf and gets the foo that A emitted
\* in place of the configured reference
C27_Witness ==
    /\ TaskIds(config) = <<"B">>
    /\ config[1].inputs = Wired
    /\ DOMAIN initial_inputs = {"pdf", "x"}
    /\ Len(Execs) = 2
    /\ Execs[1].task_id = "A"
    /\ Execs[1].inputs.data = InitialAs("data")
    /\ "foo" \in DOMAIN Execs[1].outputs.data
    /\ Execs[2].task_id = "B"
    /\ Execs[2].inputs.data["pdf"] = "lit"
    /\ Execs[2].inputs.data["foo"] = "bar"
    /\ Execs[2].inputs.data["k"] = "init"
    /\ Execs[2].inputs.data["x"] = "init"

\* C28: if setup() of a task raises, its execute() and cleanup() are never
\* invoked, the task is recorded Failed with setup's error and without
\* outputs, nothing of it is merged into the available outputs, and the
\* returned pipeline is Failed; cleanup() is invoked exactly for the tasks
\* whose setup() returned, once the task has left the executor's hands.
C28_SetupFailureSkipsCleanup ==
    /\ \A t \in Tasks :
          HasCall(t, "setup", "raise")
          => /\ CallsOf(t, "execute") = {}
             /\ CallsOf(t, "cleanup") = {}
             /\ \A n \in DOMAIN Execs :
                   Execs[n].task_id = t
                   => /\ Execs[n].status = "failed"
                      /\ Execs[n].error_message = SetupError
                      /\ ~Execs[n].has_outputs
             /\ (pc \in {"finalize", "save_metadata", "returned"})
                   => /\ \E n \in DOMAIN Execs : Execs[n].task_id = t
                      /\ \A m \in CarrierMaps :
                            available_outputs[m] = MergedBefore(Position(t))[m]
             /\ Returned => result.status = "failed"
    /\ \A n \in DOMAIN Execs :
          (CallsOf(Execs[n].task_id, "cleanup") # {})
             <=> HasCall(Execs[n].task_id, "setup", "ok")

\* A completed and was cleaned up, then setup of B raised
C28_Witness ==
    /\ Returned
    /\ resolved.order = <<"A", "B">>
    /\ HasCall("A", "setup", "ok")
    /\ HasCall("A", "cleanup", "ok")
    /\ HasCall("B", "setup", "raise")
    /\ Len(Execs) = 2
    /\ Execs[2].error_message = SetupError
    /\ result.status = "failed"

(***************************************************************************)
(* C25: validate_task_chain (specification SpecValidate)                   *)
(***************************************************************************)
\* the output kinds of the tasks before the i-th of an order
OutputsBefore(order, i) ==
    UNION {Range(registry[order[j]].output_types) : j \in 1..(i - 1)}

\* every task of the order but the first that declares input kinds finds
\* one of them among the output kinds of the tasks before it
KindsCompatible(order) ==
    \A i \in 2..Len(order) :
       LET required == Range(registry[order[i]].input_types) IN
       required # {} => required \cap OutputsBefore(order, i) # {}

\* C25: validate_task_chain returns (it never raises, and the registry is
\* as before), and it returns valid = true, with the resolved order, exactly
\* when every requested id is registered, the dependency closure has a
\* topological order, and every task of the resolved order that declares
\* input kinds has one of them among the output kinds of the tasks earlier
\* in that order, the first task of the order being exempt.
C25_ChainValidIffCompatible ==
    validation.called
    => /\ validation.valid
             <=> /\ Range(target_tasks) \subseteq DOMAIN registry
                 /\ FullyRegistered(registry, target_tasks)
                 /\ ~Cyclic(registry, target_tasks)
                 /\ resolved.error = NoError
                 /\ KindsCompatible(resolved.order)
       /\ validation.valid => validation.execution_order = resolved.order
       /\ task_types = TypesFor(registry)

(***************************************************************************)
(* C22: two pipelines on one executor (specification SpecTwoPipelines)     *)
(***************************************************************************)
\* the history of the call that runs, as a carrier
MergedCarrier(n) ==
    [data |-> MergedBefore(n)["data"], files |-> MergedBefore(n)["files"],
     metadata |-> MergedBefore(n)["metadata"]]

\* C22: two pipelines with different pipeline_ids interleaved on one executor
\* do not interfere.  Whichever call runs, after any interleaving, is as it
\* is when run alone on what it was given: its configuration and initial
\* inputs are its own, it calls only tasks of its own resolved order and
\* records them in that order, its available outputs and every task input
\* are built from its own initial inputs and its own earlier task outputs
\* and hold nothing else, and when it has returned its status and final
\* outputs follow from its own task executions.
C22_PipelinesDoNotInterfere ==
    /\ config = FlowConfig[flows.current]
    /\ initial_inputs \in FlowInitialInputs[flows.current]
    /\ \A p \in DOMAIN flows.frames :
          /\ p # flows.current
          /\ flows.frames[p].config = FlowConfig[p]
          /\ flows.frames[p].initial_inputs \in FlowInitialInputs[p]
    /\ \A i \in DOMAIN calls : Resolved /\ calls[i][1] \in Range(resolved.order)
    /\ \A n \in DOMAIN Execs : Resolved /\ Execs[n].task_id = resolved.order[n]
    /\ (Resolved /\ InFlight)
       => /\ Len(Execs) = idx - 1
          /\ available_outputs = MergedCarrier(idx)
          /\ cur.inputs = prepare_task_inputs(ConfiguredFor(cur.task_id),
                                              registry[cur.task_id].input_types,
                                              MergedCarrier(idx))
    /\ \A n \in Built :
          Execs[n].inputs = prepare_task_inputs(ConfiguredFor(Execs[n].task_id),
                                               registry[Execs[n].task_id].input_types,
                                               MergedCarrier(n))
    /\ (Returned /\ Resolved)
       => /\ (\E t \in Tasks : Fails(t)) => result.status = "failed"
          /\ result.status = "completed"
                => /\ \A t \in Range(resolved.order) : Succeeds(t)
                   /\ Len(Execs) = Len(resolved.order)
                   /\ result.has_final
                   /\ result.final_outputs = MergedCarrier(Len(Execs) + 1)

\* the second task of p2 is in flight while p1 is suspended in the execute()
\* of its task; p1 holds the initial x that p2 does not have
C22_Witness ==
    /\ flows.current = "p2"
    /\ pc = "cleanup"
    /\ idx = 2
    /\ Len(Execs) = 1
    /\ "x" \notin DOMAIN available_outputs.data
    /\ "p1" \in DOMAIN flows.frames
    /\ flows.frames["p1"].pc = "execute"
    /\ "x" \in DOMAIN flows.frames["p1"].available_outputs.data
    /\ DOMAIN records = {"p1", "p2"}

(***************************************************************************)
(* C29, C30: requests against a running background job (SpecApi)           *)
(***************************************************************************)
\* C29: under every interleaving of status, list and delete requests with
\* the background job, the job never ends in an unhandled error, and when it
\* has ended the tracking entry of its pipeline, unless it was deleted, has
\* the status completed or failed.
C29_JobNeverCrashes ==
    /\ job.pc # "crashed"
    /\ (job.pc = "done" /\ ApiPipeline \in DOMAIN active_pipelines)
          => active_pipelines[ApiPipeline].status \in {"completed", "failed"}

\* C30: once a delete request for the pipeline has returned success, the
\* pipeline stays deleted: its directory, its stored record and its index
\* entry are not there again, and a later status or list request does not
\* show it.
C30_DeletedStaysDeleted ==
    api.deleted
       => /\ ApiPipeline \notin DOMAIN records
          /\ \A i \in DOMAIN index.entries : index.entries[i].pipeline_id # ApiPipeline
          /\ api.response.op = "status" => api.response.code = 404
          /\ api.response.op = "list"
                => /\ ApiPipeline \notin api.response.active_pipelines
                   /\ \A i \in DOMAIN api.response.stored_pipelines :
                         api.response.stored_pipelines[i].pipeline_id # ApiPipeline

====
